---- MODULE Spec2Model ----
(***************************************************************************)
(* Model of the retrieval engine of Lawmedol                               *)
(* (backend/utils/rag_system.py): corpus loading, chunking, embedding,     *)
(* index build / persist / load and retrieval, for several RAGSystem       *)
(* objects that share one index directory and one process-wide embedding   *)
(* model.                                                                  *)
(*                                                                         *)
(* Conventions.                                                            *)
(*  - A text is a sequence of one-character strings.                       *)
(*  - A vector is a pair <<x, y>> of integers (the model uses 2 of the     *)
(*    EMBED_DIM dimensions); a vector of length 1.0 is represented by a    *)
(*    pair of Euclidean length 5, so the unit vectors of the model are     *)
(*    <<3,4>>, <<4,3>>, <<5,0>>, <<0,5>> and a score 1.0 is 25.            *)
(*  - Every method is a sequence of steps of a thread; pc[t] is the        *)
(*    position of thread t.                                                *)
(***************************************************************************)
EXTENDS Integers, Sequences, FiniteSets

\* ------------------------------------------------------------------ bounds
\* largest top_k a caller passes
MaxTopK == 3
\* number of corpus edits (uploads / deletions of law files) in a behaviour
MaxEdits == 2
\* longest text given to the chunker on its own, and largest chunk size it
\* is given there
MaxLen == 6
MaxSize == 3
\* number of create_case, add_dialog and delete_case calls in a behaviour,
\* and the last reading of the clock
MaxCalls == 4
MaxClock == 2

\* --------------------------------------------------------- program constants
CHUNK_SIZE == 500
CHUNK_OVERLAP == 50
EMBED_DIM == 384
INDEX_FILE == "law_faiss.index"
META_FILE == "law_meta.pkl"

\* ------------------------------------------------------------------- values
\* Python's None; a file that does not exist; a file whose bytes cannot be
\* parsed (left truncated by a failed write); a file that cannot be read
None == [kind |-> "None"]
Absent == [kind |-> "absent"]
Corrupt == [kind |-> "corrupt"]
Unreadable == [kind |-> "unreadable"]

Max(S) == CHOOSE x \in S : \A y \in S : y <= x

\* Path.exists(): a truncated file exists too
exists(f) == f # Absent

\* ------------------------------------------------------------------ chunker
IsSpace(c) == c \in {" ", "\n", "\r", "\t"}

Min(S) == CHOOSE x \in S : \A y \in S : x <= y

\* text.replace("\r\n", "\n").replace("\r", "\n"): every "\r\n" and every
\* other "\r" becomes one "\n" (the recursion goes from one "\r" to the next)
RECURSIVE NormalizeNewlines(_)
NormalizeNewlines(text) ==
    LET crs == {i \in 1..Len(text) : text[i] = "\r"}
    IN  IF crs = {} THEN text
        ELSE LET i == Min(crs)
                 skip == IF i < Len(text) /\ text[i + 1] = "\n" THEN 2 ELSE 1
             IN  SubSeq(text, 1, i - 1) \o <<"\n">>
                 \o NormalizeNewlines(SubSeq(text, i + skip, Len(text)))

\* end of the match of the regular expression \n\s*\n that starts at
\* position i of text, 0 when there is none: \s* is greedy, so the match
\* ends at the last newline of the whitespace run that follows position i
MatchEnd(text, i) ==
    IF text[i] # "\n" THEN 0
    ELSE LET e == CHOOSE e \in i..Len(text) :
                      /\ \A j \in (i+1)..e : IsSpace(text[j])
                      /\ (e = Len(text) \/ ~IsSpace(text[e+1]))
             S == {m \in (i+1)..e : text[m] = "\n"}
         IN  IF S = {} THEN 0 ELSE Max(S)

\* re.split(r"\n\s*\n", text): the pieces between the leftmost matches, from
\* position start on (the recursion goes from one match to the next)
RECURSIVE SplitFrom(_, _)
SplitFrom(text, start) ==
    LET ms == {i \in start..Len(text) : MatchEnd(text, i) > 0}
    IN  IF ms = {} THEN <<SubSeq(text, start, Len(text))>>
        ELSE LET i == Min(ms)
             IN  <<SubSeq(text, start, i - 1)>> \o SplitFrom(text, MatchEnd(text, i) + 1)

\* str.strip(): from the first to the last character that is not whitespace
Strip(s) ==
    IF \A i \in 1..Len(s) : IsSpace(s[i]) THEN <<>>
    ELSE LET first == CHOOSE i \in 1..Len(s) :
                          ~IsSpace(s[i]) /\ \A j \in 1..(i - 1) : IsSpace(s[j])
             last_ == CHOOSE i \in 1..Len(s) :
                          ~IsSpace(s[i]) /\ \A j \in (i + 1)..Len(s) : IsSpace(s[j])
         IN  SubSeq(s, first, last_)

\* Paragraphs that keeps the pieces as re.split gives them:
\* [p for p in re.split(...) if p.strip()]
Paragraphs_NoStrip(text) ==
    SelectSeq(SplitFrom(text, 1), LAMBDA p : Strip(p) # <<>>)

\* [p.strip() for p in re.split(...) if p.strip()]
Paragraphs(text) ==
    LET pieces == SplitFrom(text, 1)
        stripped == [i \in 1..Len(pieces) |-> Strip(pieces[i])]
    IN  SelectSeq(stripped, LAMBDA p : p # <<>>)

\* Windows that goes on after the window it has yielded: cur = cur[size:]
RECURSIVE Windows_NoOverlap(_, _, _)
Windows_NoOverlap(cur, size, overlap) ==
    IF Len(cur) > size
    THEN <<SubSeq(cur, 1, size)>>
         \o Windows_NoOverlap(SubSeq(cur, size + 1, Len(cur)), size, overlap)
    ELSE IF cur # <<>> THEN <<cur>> ELSE <<>>

\* Windows without the while loop: what is left of the buffer is yielded
\* whole
Windows_NoSplit(cur, size, overlap) == IF cur # <<>> THEN <<cur>> ELSE <<>>

\* while len(cur) > size: yield cur[:size]; cur = cur[size - overlap:]
\* if cur: yield cur
RECURSIVE Windows(_, _, _)
Windows(cur, size, overlap) ==
    IF Len(cur) > size
    THEN <<SubSeq(cur, 1, size)>>
         \o Windows(SubSeq(cur, size - overlap + 1, Len(cur)), size, overlap)
    ELSE IF cur # <<>> THEN <<cur>> ELSE <<>>

\* Accumulate without the flush of lines 56-63: the buffer left at the end
\* of the text is dropped
RECURSIVE Accumulate_NoFlush(_, _, _, _, _)
Accumulate_NoFlush(paragraphs, i, buf, size, overlap) ==
    IF i > Len(paragraphs)
    THEN <<>>
    ELSE LET p == paragraphs[i]
         IN  IF buf = <<>>
             THEN Accumulate_NoFlush(paragraphs, i + 1, p, size, overlap)
             ELSE IF Len(buf) + 1 + Len(p) <= size
             THEN Accumulate_NoFlush(paragraphs, i + 1, buf \o <<"\n">> \o p, size, overlap)
             ELSE Windows(buf, size, overlap)
                  \o Accumulate_NoFlush(paragraphs, i + 1, p, size, overlap)

\* Accumulate without the test of line 43: a paragraph always joins the
\* buffer
RECURSIVE Accumulate_AlwaysJoin(_, _, _, _, _)
Accumulate_AlwaysJoin(paragraphs, i, buf, size, overlap) ==
    IF i > Len(paragraphs)
    THEN IF buf # <<>> THEN Windows(buf, size, overlap) ELSE <<>>
    ELSE IF buf = <<>>
         THEN Accumulate_AlwaysJoin(paragraphs, i + 1, paragraphs[i], size, overlap)
         ELSE Accumulate_AlwaysJoin(paragraphs, i + 1, buf \o <<"\n">> \o paragraphs[i],
                                    size, overlap)

\* the loop over the paragraphs, with the buffer buf, and the final flush
RECURSIVE Accumulate(_, _, _, _, _)
Accumulate(paragraphs, i, buf, size, overlap) ==
    IF i > Len(paragraphs)
    THEN IF buf # <<>> THEN Windows(buf, size, overlap) ELSE <<>>
    ELSE LET p == paragraphs[i]
         IN  IF buf = <<>>
             THEN Accumulate(paragraphs, i + 1, p, size, overlap)
             ELSE IF Len(buf) + 1 + Len(p) <= size
             THEN Accumulate(paragraphs, i + 1, buf \o <<"\n">> \o p, size, overlap)
             ELSE Windows(buf, size, overlap)
                  \o Accumulate(paragraphs, i + 1, p, size, overlap)

\* the chunks the generator yields, in order
_split_paragraph_chunks(text, size, overlap) ==
    Accumulate(Paragraphs(NormalizeNewlines(text)), 1, <<>>, size, overlap)

\* ------------------------------------------------------- embedding, vectors
Isqrt(s) == CHOOSE n \in 0..s : n * n <= s /\ (n + 1) * (n + 1) > s

\* SentenceTransformer.encode of one text: a fixed function of the text.
\* The direction of the raw vector depends on the first character and the
\* length of the text, its magnitude (1 or 2 units) on the length only.
encode(text) ==
    LET dirs == << <<3, 4>>, <<4, 3>>, <<5, 0>>, <<0, 5>> >>
        d == dirs[(((IF text # <<>> /\ text[1] = "a" THEN 0 ELSE 1) + Len(text)) % 4) + 1]
        k == 1 + (Len(text) % 2)
    IN  <<k * d[1], k * d[2]>>

\* v / (np.linalg.norm(v) + 1e-12), one row
_norm1(v) ==
    LET n == Isqrt(v[1] * v[1] + v[2] * v[2])
    IN  IF n = 0 THEN v ELSE <<(5 * v[1]) \div n, (5 * v[2]) \div n>>

_norm(emb) == [i \in 1..Len(emb) |-> _norm1(emb[i])]

Dot(u, v) == u[1] * v[1] + u[2] * v[2]

\* faiss.IndexFlatIP(EMBED_DIM); index.add(emb)
IndexFlatIP(emb) == [d |-> EMBED_DIM, ntotal |-> Len(emb), xb |-> emb]

\* rows of a flat index ordered by descending inner product with q (rows of
\* equal score in row order)
RECURSIVE Ranked(_, _, _)
Ranked(xb, q, rows) ==
    IF rows = {} THEN <<>>
    ELSE LET best == CHOOSE r \in rows : \A o \in rows :
                        \/ Dot(xb[r], q) > Dot(xb[o], q)
                        \/ (Dot(xb[r], q) = Dot(xb[o], q) /\ r <= o)
         IN  <<best>> \o Ranked(xb, q, rows \ {best})

\* index.search(q, top_k): top_k pairs <<score, id>> by descending score, ids
\* are 0-based rows; when the index has fewer than top_k rows the tail is
\* padded with id -1 and the lowest score
search(index, q, top_k) ==
    LET order == Ranked(index.xb, q, 1..index.ntotal)
    IN  [j \in 1..top_k |->
            IF j <= index.ntotal
            THEN <<Dot(index.xb[order[j]], q), order[j] - 1>>
            ELSE <<-2147483647, -1>>]

\* ------------------------------------------------------------- persistence
\* faiss.write_index: header and the flat array of the stored components
RECURSIVE Flatten(_)
Flatten(xb) == IF xb = <<>> THEN <<>> ELSE Head(xb) \o Flatten(Tail(xb))

write_index(index) ==
    [fmt |-> "faiss", d |-> index.d, ntotal |-> index.ntotal, codes |-> Flatten(index.xb)]

\* faiss.read_index
read_index(file) ==
    [d |-> file.d, ntotal |-> file.ntotal,
     xb |-> [i \in 1..file.ntotal |-> <<file.codes[2 * i - 1], file.codes[2 * i]>>]]

\* pickle.dump(meta, f): the records as a list of key/value pairs
pickle_dump(meta) ==
    [fmt |-> "pickle",
     items |-> [i \in 1..Len(meta) |->
                  << <<"source", meta[i].source>>, <<"chunk_id", meta[i].chunk_id>>,
                     <<"text", meta[i].text>> >>]]

\* pickle.load(f)
pickle_load(file) ==
    [i \in 1..Len(file.items) |->
        [source |-> file.items[i][1][2], chunk_id |-> file.items[i][2][2],
         text |-> file.items[i][3][2]]]

\* ------------------------------------------------------------------ corpus
\* the .txt files and the .md file of the corpus directory, as
\* sorted(glob("*.txt")) and sorted(glob("*.md")) list them
TxtFiles == <<"b.txt", "c.txt">>
MdFiles == <<"a.md">>
Files == {TxtFiles[i] : i \in 1..Len(TxtFiles)} \cup {MdFiles[i] : i \in 1..Len(MdFiles)}

\* one paragraph of CHUNK_SIZE + 1 characters
TextLong == [i \in 1..(CHUNK_SIZE + 1) |-> IF i <= CHUNK_SIZE THEN "a" ELSE "b"]

\* what a corpus file can hold: nothing (no such file), bytes that cannot be
\* read at all, or a text in an encoding
FileContents(f) ==
    IF f = "b.txt"
    THEN {Absent, [enc |-> "utf-8", text |-> <<" ", "\n">>], [enc |-> "utf-8", text |-> <<"a">>],
          [enc |-> "utf-8", text |-> <<"b", "b">>]}
    ELSE IF f = "c.txt" THEN {Absent}
    ELSE {Absent, Unreadable, [enc |-> "gb18030", text |-> <<"b", "\r", "\n", "\r", "\n", "a">>]}

\* what the files hold besides, where the builds are looked at on their own:
\* a text of more than one chunk, and a second .txt file
LongContents(f) ==
    IF f = "b.txt" THEN {[enc |-> "utf-8", text |-> TextLong]}
    ELSE IF f = "c.txt" THEN {[enc |-> "utf-8", text |-> <<"b", "b", "b">>]}
    ELSE {}

Queries == {<<"a">>, <<"b">>}
TopKs == {0, 1, MaxTopK}

Threads == {"t1", "t2"}
\* browser sessions, each with its own st.session_state
Sessions == {"u1", "u2"}
Services == {"A", "B"}

\* the case ids _generate_case_id can give
Ids == {"c1", "c2"}

\* fp.read_text(encoding=...) of a file that can be read: a file not written
\* in UTF-8 raises UnicodeDecodeError when read as UTF-8; gb18030 with
\* errors="ignore" never raises
read_text(content, encoding) ==
    IF encoding = "utf-8" /\ content.enc # "utf-8"
    THEN [raised |-> TRUE, text |-> <<>>]
    ELSE [raised |-> FALSE, text |-> content.text]

\* fp.read_text(encoding="utf-8"), on UnicodeDecodeError
\* fp.read_text(encoding="gb18030", errors="ignore")
_read_text(content) ==
    IF read_text(content, "utf-8").raised
    THEN read_text(content, "gb18030").text
    ELSE read_text(content, "utf-8").text

\* RAGSystem._load_corpus: <<name, text>> of every file that can be read,
\* .txt files first
_load_corpus(c) ==
    LET files == TxtFiles \o MdFiles
        present == SelectSeq(files, LAMBDA f : c[f] # Absent /\ c[f] # Unreadable)
    IN  [i \in 1..Len(present) |-> <<present[i], _read_text(c[present[i]])>>]

\* what _load_corpus writes to the log or prints, one line per file name:
\* the except branches of lines 122-127 read the file once more and then
\* "continue"; they hold no print and no logging call
_load_corpus_log(c) == <<>>

\* the meta list build_index assembles: one record per chunk, chunk_id
\* counts the chunks of one file from 0
RECURSIVE BuildMeta(_)
BuildMeta(files) ==
    IF files = <<>> THEN <<>>
    ELSE LET chunks == _split_paragraph_chunks(files[1][2], CHUNK_SIZE, CHUNK_OVERLAP)
         IN  [i \in 1..Len(chunks) |->
                 [source |-> files[1][1], chunk_id |-> i - 1, text |-> chunks[i]]]
             \o BuildMeta(Tail(files))

\* model.encode(texts) of the chunk texts, in order
EncodeAll(meta) == [i \in 1..Len(meta) |-> encode(meta[i].text)]

\* ------------------------------------------------------------------- state
VARIABLES
    corpus,     \* corpus directory: file name -> content
    edits,      \* number of corpus edits so far
    disk,       \* index directory: [idx |-> INDEX_FILE content, meta |-> META_FILE content]
    model,      \* the module global _model: None or the loaded model
    index,      \* service -> self.index (None or a flat index)
    metadata,   \* service -> self.metadata
    pc,         \* thread -> position in the method it runs; "done": the method
                \*           has returned; "idle": the caller has taken the result
    call,       \* thread -> the call it runs or has run: method, service, arguments
    loc,        \* thread -> local variables of the running method
    ret,        \* thread -> result of the finished call and what ended it
    pre,        \* thread -> the service's index and metadata, the disk and the
                \*           corpus at the time of the call
    loads,      \* thread -> number of load_index() invocations in the call
    built,      \* service -> a build_index() on it has returned True
    split_in,   \* arguments of a call of _split_paragraph_chunks on its own
    split_out,  \* the chunks that call has yielded
    gen,        \* the generator _split_paragraph_chunks run step by step: its
                \*   place, its local variables and the chunks yielded so far
    cases_dir,  \* storage/cases: case id -> the directory case_<id>, its files
                \*                meta.json, full_text.txt and dialog.jsonl
    files_dir,  \* case id -> the directory case_<id>/files: file name -> content
    clock,      \* the wall clock datetime.now() reads
    cm_call,    \* the CaseManager or FileProcessor call that returned last
    cm_ret,     \* its result
    cm_pre,     \* cases_dir, files_dir, created and asked when that call was made
    created,    \* the ids create_case has given and delete_case has not been
                \*   called on since, in the order of the create_case calls
    asked,      \* case id -> the arguments of the add_dialog calls that have
                \*   returned True since the case was created
    calls,      \* number of create_case, add_dialog and delete_case calls
    selected_laws,        \* browser session -> st.session_state.selected_laws
    show_delete_confirm,  \* browser session -> st.session_state.show_delete_confirm
    sidebar     \* browser session -> the message the last run of the script
                \*                    has put in the sidebar for it

ragvars == <<corpus, edits, disk, model, index, metadata, pc, call, loc, ret, pre,
             loads, built>>
splitvars == <<split_in, split_out, gen>>
storevars == <<cases_dir, files_dir, clock, cm_call, cm_ret, cm_pre, created, asked, calls>>
uivars == <<selected_laws, show_delete_confirm, sidebar>>
vars == <<ragvars, splitvars, storevars, uivars>>

NoCall == [op |-> "none", svc |-> "none", query |-> <<>>, top_k |-> 0]
NoLoc == [kind |-> "none"]
NoMessage == [kind |-> "none", file |-> "none"]

\* the name of a file in the files directory of a case: base + ext when n is
\* 0, else base + "(n)" + ext
Target(base, n, ext) == [base |-> base, n |-> n, ext |-> ext]
\* the names an upload named x.txt can be stored under
TargetNames == {Target("x", n, ".txt") : n \in 0..MaxCalls}
\* a files directory with no file
NoFiles == [f \in TargetNames |-> Absent]

\* no RAGSystem holds an index, the two directories are empty
RagInit ==
    /\ corpus = [f \in Files |-> Absent]
    /\ edits = 0
    /\ disk = [idx |-> Absent, meta |-> Absent]
    /\ model = None
    /\ index = [s \in Services |-> None]
    /\ metadata = [s \in Services |-> <<>>]
    /\ pc = [t \in Threads |-> "idle"]
    /\ call = [t \in Threads |-> NoCall]
    /\ loc = [t \in Threads |-> NoLoc]
    /\ ret = [t \in Threads |-> None]
    /\ pre = [t \in Threads |-> None]
    /\ loads = [t \in Threads |-> 0]
    /\ built = [s \in Services |-> FALSE]

\* the chunker is not called on its own
SplitNone ==
    /\ split_in = None
    /\ split_out = None
    /\ gen = [pc |-> "none"]

\* CaseManager(): no case; nothing has been called
StoreInit ==
    /\ cases_dir = [c \in Ids |-> Absent]
    /\ files_dir = [c \in Ids |-> NoFiles]
    /\ clock = 0
    /\ cm_call = [op |-> "none", case_id |-> None, arg |-> None]
    /\ cm_ret = [val |-> None]
    /\ cm_pre = None
    /\ created = <<>>
    /\ asked = [c \in Ids |-> <<>>]
    /\ calls = 0

\* the first run of the script in a session: nothing selected, no deletion
\* asked for, nothing shown
UiInit ==
    /\ selected_laws = [u \in Sessions |-> <<>>]
    /\ show_delete_confirm = [u \in Sessions |-> None]
    /\ sidebar = [u \in Sessions |-> NoMessage]

Init ==
    /\ RagInit
    /\ SplitNone
    /\ StoreInit
    /\ UiInit

Snapshot(s) == [index |-> index[s], metadata |-> metadata[s], disk |-> disk, corpus |-> corpus]

\* thread t, which runs no method, calls method op of service s
Enter(t, op, s, q, k) ==
    /\ pc[t] = "idle"
    /\ call' = [call EXCEPT ![t] = [op |-> op, svc |-> s, query |-> q, top_k |-> k]]

\* the call of thread t ends with result val; why names what ended it
Finish(t, val, why) ==
    /\ pc' = [pc EXCEPT ![t] = "done"]
    /\ ret' = [ret EXCEPT ![t] = [val |-> val, why |-> why]]
    /\ loc' = [loc EXCEPT ![t] = NoLoc]
    /\ pre' = [pre EXCEPT ![t] = IF pc[t] = "idle" THEN Snapshot(call'[t].svc) ELSE @]

\* the method goes on at label with the local variables locals
Goto(t, label, locals) ==
    /\ pc' = [pc EXCEPT ![t] = label]
    /\ loc' = [loc EXCEPT ![t] = locals]
    /\ ret' = ret
    /\ pre' = [pre EXCEPT ![t] = IF pc[t] = "idle" THEN Snapshot(call'[t].svc) ELSE @]

\* ------------------------------------------------------- corpus directory
\* a law file is saved to, or removed from, the corpus directory
EditCorpus(f, c) ==
    /\ edits < MaxEdits
    /\ c \in FileContents(f) \cup LongContents(f)
    /\ c # corpus[f]
    /\ corpus' = [corpus EXCEPT ![f] = c]
    /\ edits' = edits + 1
    /\ UNCHANGED <<disk, model, index, metadata, pc, call, loc, ret, pre, loads, built, splitvars, storevars, uivars>>

\* ------------------------------------------------------------- RAGSystem()
\* a fresh RAGSystem object takes the place of service s
Construct(s) ==
    /\ \A t \in Threads : pc[t] = "idle"
    /\ index[s] # None \/ metadata[s] # <<>>
    /\ index' = [index EXCEPT ![s] = None]
    /\ metadata' = [metadata EXCEPT ![s] = <<>>]
    /\ built' = [built EXCEPT ![s] = FALSE]
    /\ UNCHANGED <<corpus, edits, disk, model, pc, call, loc, ret, pre, loads, splitvars, storevars, uivars>>

\* ------------------------------------------------------------ build_index
\* BuildCorpus without "if not files" and "if not texts": the build goes on
\* with whatever the corpus gives
BuildCorpus_NoEmptyCheck(t, s) ==
    /\ Enter(t, "build", s, <<>>, 0)
    /\ Goto(t, "b_embed", [kind |-> "build", meta |-> BuildMeta(_load_corpus(corpus))])
    /\ loads' = [loads EXCEPT ![t] = 0]
    /\ UNCHANGED <<corpus, edits, disk, model, index, metadata, built, splitvars, storevars, uivars>>

\* build_index() is called; files = self._load_corpus(); the loop that fills
\* texts and meta; "if not files: return False", "if not texts: return False"
BuildCorpus(t, s) ==
    /\ Enter(t, "build", s, <<>>, 0)
    /\ LET files == _load_corpus(corpus)
           meta == BuildMeta(files)
       IN  IF files = <<>> THEN Finish(t, FALSE, "no_files")
           ELSE IF meta = <<>> THEN Finish(t, FALSE, "no_chunks")
           ELSE Goto(t, "b_embed", [kind |-> "build", meta |-> meta])
    /\ loads' = [loads EXCEPT ![t] = 0]
    /\ UNCHANGED <<corpus, edits, disk, model, index, metadata, built, splitvars, storevars, uivars>>

\* SentenceTransformer(MODEL_NAME): one more model object; n counts the
\* objects the process has constructed, this one included
SentenceTransformer == [kind |-> "model", n |-> (IF model = None THEN 0 ELSE model.n) + 1]

\* the places of a method where _get_model() has found _model to be None
\* and goes on to construct the model
Making == {"b_model", "r_model"}

\* _get_model(), the test "if _model is None" that has found None
GetModelTest(t) ==
    /\ pc[t] \in {"b_embed", "r_embed"}
    /\ model = None
    /\ Goto(t, IF pc[t] = "b_embed" THEN "b_model" ELSE "r_model", loc[t])
    /\ UNCHANGED <<corpus, edits, disk, model, index, metadata, call, loads, built, splitvars, storevars, uivars>>

\* thread t runs the rest of the embedding step: it is at label making,
\* has found _model to be None and constructs the model, or it is at label
\* found and finds the model
Embedding(t, found, making) ==
    \/ pc[t] = making
    \/ pc[t] = found /\ model # None

\* what the rest of _get_model() and model.encode() can do: the
\* construction of the model can fail; encode can raise
EmbedOutcomes(t, env) ==
    IF env = "reliable" THEN {"ok"}
    ELSE IF pc[t] \in Making THEN {"ok", "load_fail", "encode_fail"}
    ELSE {"ok", "encode_fail"}

\* _model after the rest of _get_model() of thread t with outcome out
GetModel(t, out) ==
    IF pc[t] \in Making /\ out # "load_fail" THEN SentenceTransformer ELSE model

\* BuildEmbed with "self.metadata = meta" moved before the embedding
BuildEmbed_MetaFirst(t, env) ==
    /\ Embedding(t, "b_embed", "b_model")
    /\ metadata' = [metadata EXCEPT ![call[t].svc] = loc[t].meta]
    /\ \E out \in EmbedOutcomes(t, env) :
          /\ model' = GetModel(t, out)
          /\ IF out = "ok"
             THEN Goto(t, "b_write_index",
                       [kind |-> "build", meta |-> loc[t].meta,
                        index |-> IndexFlatIP(_norm(EncodeAll(loc[t].meta)))])
             ELSE Finish(t, FALSE, out)
    /\ UNCHANGED <<corpus, edits, disk, index, call, loads, built, splitvars, storevars, uivars>>

\* model = _get_model(); emb = _norm(model.encode(texts)); index.add(emb)
BuildEmbed(t, env) ==
    /\ Embedding(t, "b_embed", "b_model")
    /\ \E out \in EmbedOutcomes(t, env) :
          /\ model' = GetModel(t, out)
          /\ IF out = "ok"
             THEN Goto(t, "b_write_index",
                       [kind |-> "build", meta |-> loc[t].meta,
                        index |-> IndexFlatIP(_norm(EncodeAll(loc[t].meta)))])
             ELSE Finish(t, FALSE, out)
    /\ UNCHANGED <<corpus, edits, disk, index, metadata, call, loads, built, splitvars, storevars, uivars>>

\* what a write of a file can do: succeed, raise before the file is touched,
\* or raise and leave a truncated file
WriteOutcomes(env) == IF env = "reliable" THEN {"ok"} ELSE {"ok", "fail", "partial"}

\* faiss.write_index(index, str(self.index_path))
BuildWriteIndex(t, env) ==
    /\ pc[t] = "b_write_index"
    /\ \E out \in WriteOutcomes(env) :
          /\ disk' = [disk EXCEPT !.idx = IF out = "ok" THEN write_index(loc[t].index)
                                          ELSE IF out = "partial" THEN Corrupt ELSE @]
          /\ IF out = "ok" THEN Goto(t, "b_write_meta", loc[t])
                           ELSE Finish(t, FALSE, "write_index")
    /\ UNCHANGED <<corpus, edits, model, index, metadata, call, loads, built, splitvars, storevars, uivars>>

\* with open(self.meta_path, "wb") as f: pickle.dump(meta, f)
BuildWriteMeta(t, env) ==
    /\ pc[t] = "b_write_meta"
    /\ \E out \in WriteOutcomes(env) :
          /\ disk' = [disk EXCEPT !.meta = IF out = "ok" THEN pickle_dump(loc[t].meta)
                                           ELSE IF out = "partial" THEN Corrupt ELSE @]
          /\ IF out = "ok" THEN Goto(t, "b_set_index", loc[t])
                           ELSE Finish(t, FALSE, "write_meta")
    /\ UNCHANGED <<corpus, edits, model, index, metadata, call, loads, built, splitvars, storevars, uivars>>

\* self.index = index
BuildSetIndex(t) ==
    /\ pc[t] = "b_set_index"
    /\ index' = [index EXCEPT ![call[t].svc] = loc[t].index]
    /\ Goto(t, "b_set_meta", loc[t])
    /\ UNCHANGED <<corpus, edits, disk, model, metadata, call, loads, built, splitvars, storevars, uivars>>

\* self.metadata = meta; return True
BuildSetMeta(t) ==
    /\ pc[t] = "b_set_meta"
    /\ metadata' = [metadata EXCEPT ![call[t].svc] = loc[t].meta]
    /\ Finish(t, TRUE, "ok")
    /\ built' = [built EXCEPT ![call[t].svc] = TRUE]
    /\ UNCHANGED <<corpus, edits, disk, model, index, call, loads, splitvars, storevars, uivars>>

\* ------------------------------------------------------------- load_index
\* load_index() returns ok: to its caller, which is retrieve_law_chunks
\* ("if not self.load_index(): return []") or the caller of the service
LoadReturn(t, op, ok, why) ==
    IF op = "load" THEN Finish(t, ok, why)
    ELSE IF ok THEN Goto(t, "r_embed", NoLoc)
    ELSE Finish(t, <<>>, why)

\* LoadCheck with "and" in place of "or": it returns False only when both
\* files are absent
LoadCheck_BothAbsent(t, op) ==
    IF disk.idx = Absent /\ disk.meta = Absent
    THEN LoadReturn(t, op, FALSE, "missing")
    ELSE Goto(t, "l_read_index", NoLoc)

\* if not self.index_path.exists() or not self.meta_path.exists(): return False
LoadCheck(t, op) ==
    IF disk.idx = Absent \/ disk.meta = Absent
    THEN LoadReturn(t, op, FALSE, "missing")
    ELSE Goto(t, "l_read_index", NoLoc)

\* load_index() is called by the caller of the service
LoadCall(t, s) ==
    /\ Enter(t, "load", s, <<>>, 0)
    /\ LoadCheck(t, "load")
    /\ loads' = [loads EXCEPT ![t] = 1]
    /\ UNCHANGED <<corpus, edits, disk, model, index, metadata, built, splitvars, storevars, uivars>>

\* self.index = faiss.read_index(str(self.index_path))
LoadReadIndex(t) ==
    /\ pc[t] = "l_read_index"
    /\ IF disk.idx \in {Absent, Corrupt}
       THEN /\ LoadReturn(t, call[t].op, FALSE, "read_index")
            /\ index' = index
       ELSE /\ index' = [index EXCEPT ![call[t].svc] = read_index(disk.idx)]
            /\ Goto(t, "l_read_meta", NoLoc)
    /\ UNCHANGED <<corpus, edits, disk, model, metadata, call, loads, built, splitvars, storevars, uivars>>

\* LoadReadMeta that reads the file and drops what it read
LoadReadMeta_NotStored(t) ==
    /\ pc[t] = "l_read_meta"
    /\ IF disk.meta \in {Absent, Corrupt}
       THEN LoadReturn(t, call[t].op, FALSE, "read_meta")
       ELSE LoadReturn(t, call[t].op, TRUE, "ok")
    /\ UNCHANGED <<corpus, edits, disk, model, index, metadata, call, loads, built, splitvars, storevars, uivars>>

\* with open(self.meta_path, "rb") as f: self.metadata = pickle.load(f)
\* return True
LoadReadMeta(t) ==
    /\ pc[t] = "l_read_meta"
    /\ IF disk.meta \in {Absent, Corrupt}
       THEN /\ LoadReturn(t, call[t].op, FALSE, "read_meta")
            /\ metadata' = metadata
       ELSE /\ metadata' = [metadata EXCEPT ![call[t].svc] = pickle_load(disk.meta)]
            /\ LoadReturn(t, call[t].op, TRUE, "ok")
    /\ UNCHANGED <<corpus, edits, disk, model, index, call, loads, built, splitvars, storevars, uivars>>

\* ---------------------------------------------------- retrieve_law_chunks
\* RetrieveCheck without the load_index() attempt
RetrieveCheck_NoLoad(t, s, q, k) ==
    /\ Enter(t, "retrieve", s, q, k)
    /\ Goto(t, "r_embed", NoLoc)
    /\ loads' = [loads EXCEPT ![t] = 0]
    /\ UNCHANGED <<corpus, edits, disk, model, index, metadata, built, splitvars, storevars, uivars>>

\* retrieve_law_chunks(q, k) is called;
\* if self.index is None: if not self.load_index(): return []
RetrieveCheck(t, s, q, k) ==
    /\ Enter(t, "retrieve", s, q, k)
    /\ IF index[s] = None
       THEN /\ LoadCheck(t, "retrieve")
            /\ loads' = [loads EXCEPT ![t] = 1]
       ELSE /\ Goto(t, "r_embed", NoLoc)
            /\ loads' = [loads EXCEPT ![t] = 0]
    /\ UNCHANGED <<corpus, edits, disk, model, index, metadata, built, splitvars, storevars, uivars>>

\* model = _get_model(); q = _norm(model.encode([query]))
RetrieveEmbed(t, env) ==
    /\ Embedding(t, "r_embed", "r_model")
    /\ \E out \in EmbedOutcomes(t, env) :
          /\ model' = GetModel(t, out)
          /\ IF out = "ok"
             THEN Goto(t, "r_search", [kind |-> "query", q |-> _norm1(encode(call[t].query))])
             ELSE Finish(t, <<>>, out)
    /\ UNCHANGED <<corpus, edits, disk, index, metadata, call, loads, built, splitvars, storevars, uivars>>

\* scores, ids = self.index.search(q, top_k); the search raises when
\* self.index is None and when top_k is not positive
RetrieveSearch(t) ==
    /\ pc[t] = "r_search"
    /\ LET ix == index[call[t].svc]
       IN  IF ix = None \/ call[t].top_k <= 0
           THEN Finish(t, <<>>, "search")
           ELSE Goto(t, "r_collect",
                     [kind |-> "hits", hits |-> search(ix, loc[t].q, call[t].top_k),
                      ntotal |-> ix.ntotal])
    /\ UNCHANGED <<corpus, edits, disk, model, index, metadata, call, loads, built, splitvars, storevars, uivars>>

\* the result of one hit <<score, idx>> with its metadata record m
Result(hit, m) ==
    [text |-> m.text, source |-> m.source, score |-> hit[1], chunk_id |-> m.chunk_id,
     full_text |-> m.text, chunk_index |-> hit[2]]

\* Collect with results.insert(0, {...}) in place of results.append({...})
RECURSIVE Collect_Prepend(_, _)
Collect_Prepend(hits, md) ==
    IF hits = <<>> THEN <<>>
    ELSE LET idx == hits[1][2]
         IN  Collect_Prepend(Tail(hits), md)
             \o (IF 0 <= idx /\ idx < Len(md) THEN <<Result(hits[1], md[idx + 1])>> ELSE <<>>)

\* Collect with "if idx < len(self.metadata)": a padded id -1 reads
\* self.metadata[-1], the last record
RECURSIVE Collect_NoLowerBound(_, _)
Collect_NoLowerBound(hits, md) ==
    IF hits = <<>> THEN <<>>
    ELSE LET idx == hits[1][2]
             pos == IF idx >= 0 THEN idx + 1 ELSE Len(md) + 1 + idx
         IN  (IF idx < Len(md) /\ pos >= 1 THEN <<Result(hits[1], md[pos])>> ELSE <<>>)
             \o Collect_NoLowerBound(Tail(hits), md)

\* for s, idx in zip(scores[0], ids[0]):
\*     if 0 <= idx < len(self.metadata): results.append({...})
RECURSIVE Collect(_, _)
Collect(hits, md) ==
    IF hits = <<>> THEN <<>>
    ELSE LET idx == hits[1][2]
         IN  (IF 0 <= idx /\ idx < Len(md) THEN <<Result(hits[1], md[idx + 1])>> ELSE <<>>)
             \o Collect(Tail(hits), md)

\* the loop over the hits; return results
RetrieveCollect(t) ==
    /\ pc[t] = "r_collect"
    /\ Finish(t, Collect(loc[t].hits, metadata[call[t].svc]), "ok")
    /\ UNCHANGED <<corpus, edits, disk, model, index, metadata, call, loads, built, splitvars, storevars, uivars>>

\* what retrieve_law_chunks(q, k) returns on the index ix and the metadata
\* md when the embedding model works
Retrieved(ix, md, q, k) ==
    IF ix = None \/ k <= 0 THEN <<>>
    ELSE Collect(search(ix, _norm1(encode(q)), k), md)

\* ----------------------------------------------------- is_index_available
\* IsIndexAvailable that also asks for a loaded index
IsIndexAvailable_NeedsLoaded(t, s) ==
    /\ Enter(t, "available", s, <<>>, 0)
    /\ Finish(t, exists(disk.idx) /\ exists(disk.meta) /\ index[s] # None, "ok")
    /\ loads' = [loads EXCEPT ![t] = 0]
    /\ UNCHANGED <<corpus, edits, disk, model, index, metadata, built, splitvars, storevars, uivars>>

\* return self.index_path.exists() and self.meta_path.exists()
IsIndexAvailable(t, s) ==
    /\ Enter(t, "available", s, <<>>, 0)
    /\ Finish(t, exists(disk.idx) /\ exists(disk.meta), "ok")
    /\ loads' = [loads EXCEPT ![t] = 0]
    /\ UNCHANGED <<corpus, edits, disk, model, index, metadata, built, splitvars, storevars, uivars>>

\* ------------------------------------------------------------------ caller
\* the caller has taken the result of the call
Return(t) ==
    /\ pc[t] = "done"
    /\ pc' = [pc EXCEPT ![t] = "idle"]
    /\ call' = [call EXCEPT ![t] = NoCall]
    /\ ret' = [ret EXCEPT ![t] = None]
    /\ loads' = [loads EXCEPT ![t] = 0]
    /\ pre' = [pre EXCEPT ![t] = None]
    /\ UNCHANGED <<corpus, edits, disk, model, index, metadata, loc, built, splitvars, storevars, uivars>>

\* ---------------------------------------------- the chunker on its own
\* the characters of the texts given to the chunker
Alphabet == {"a", "b", " ", "\n", "\r"}

\* every text of at most MaxLen characters
Texts == UNION {[1..n -> Alphabet] : n \in 0..MaxLen}

\* n times the character c
Repeat(c, n) == [i \in 1..n |-> c]

\* the texts of two paragraphs with a blank line between them, the first of
\* at most MaxLen and the second of at most MaxSize characters
TwoParagraphs ==
    {Repeat("a", n) \o <<"b", "\n", "\n">> \o Repeat("b", m) :
        n \in 0..(MaxLen - 1), m \in 1..MaxSize}

\* every call _split_paragraph_chunks(text, size, overlap) with
\* 0 <= overlap < size
SplitInputs ==
    {i \in [text : Texts \cup TwoParagraphs, size : 1..MaxSize, overlap : 0..(MaxSize - 1)] :
        i.overlap < i.size}

\* the generator is run to its end
Split ==
    /\ split_in # None
    /\ split_out = None
    /\ split_out' = [kind |-> "chunks",
                     val |-> _split_paragraph_chunks(split_in.text, split_in.size,
                                                     split_in.overlap)]
    /\ UNCHANGED <<split_in, gen, ragvars, storevars, uivars>>

\* ------------------------------------- the chunker, one step at a time
\* every call with a text of at most MaxLen characters, each "a" or "\n", and
\* 0 <= overlap < size
GenInputs ==
    {i \in [text : UNION {[1..n -> {"a", "\n"}] : n \in 0..MaxLen},
            size : 1..MaxSize, overlap : 0..(MaxSize - 1)] :
        i.overlap < i.size}

\* the places of the two while loops: inside the for loop, and after it
Whiles == {"while_in", "while_end"}

\* _split_paragraph_chunks(text, size, overlap) is called with the
\* arguments i and asked for its first chunk; lines 36-38: text = ...;
\* paragraphs = [...]; buf = ""
GenStart(i) ==
    /\ gen.pc = "none"
    /\ split_in' = i
    /\ gen' = [pc |-> "for", ps |-> Paragraphs(NormalizeNewlines(i.text)), i |-> 1,
               buf |-> <<>>, cur |-> <<>>, out |-> <<>>]
    /\ UNCHANGED <<split_out, ragvars, storevars, uivars>>

\* lines 39-48: one turn of "for p in paragraphs" up to the while loop, or
\* the end of the for loop
GenFor ==
    /\ gen.pc = "for"
    /\ IF gen.i > Len(gen.ps)
       THEN gen' = [gen EXCEPT !.pc = "flush"]
       ELSE LET p == gen.ps[gen.i]
            IN  IF gen.buf = <<>>
                THEN gen' = [gen EXCEPT !.buf = p, !.i = @ + 1]
                ELSE IF Len(gen.buf) + 1 + Len(p) <= split_in.size
                THEN gen' = [gen EXCEPT !.buf = @ \o <<"\n">> \o p, !.i = @ + 1]
                ELSE gen' = [gen EXCEPT !.cur = gen.buf, !.pc = "while_in"]
    /\ UNCHANGED <<split_in, split_out, ragvars, storevars, uivars>>

\* GenWindow that does not move on in the buffer: cur = cur[0:]; the chunk
\* is yielded once
GenWindow_NoAdvance ==
    /\ gen.pc \in Whiles
    /\ Len(gen.cur) > split_in.size
    /\ gen' = [gen EXCEPT !.out = IF @ # <<>> /\ @[Len(@)] = SubSeq(gen.cur, 1, split_in.size)
                                  THEN @ ELSE Append(@, SubSeq(gen.cur, 1, split_in.size))]
    /\ UNCHANGED <<split_in, split_out, ragvars, storevars, uivars>>

\* lines 49-52 and 59-61: one turn of "while len(cur) > size":
\* yield cur[:size]; cur = cur[size - overlap:]
GenWindow ==
    /\ gen.pc \in Whiles
    /\ Len(gen.cur) > split_in.size
    /\ gen' = [gen EXCEPT !.out = Append(@, SubSeq(gen.cur, 1, split_in.size)),
                          !.cur = SubSeq(@, split_in.size - split_in.overlap + 1, Len(@))]
    /\ UNCHANGED <<split_in, split_out, ragvars, storevars, uivars>>

\* lines 53-55 and 62-63: the while loop is left; "if cur: yield cur"; in
\* the for loop "buf = p" and the next turn, after it the end
GenRest ==
    /\ gen.pc \in Whiles
    /\ Len(gen.cur) <= split_in.size
    /\ LET out == IF gen.cur # <<>> THEN Append(gen.out, gen.cur) ELSE gen.out
       IN  IF gen.pc = "while_in"
           THEN gen' = [gen EXCEPT !.out = out, !.buf = gen.ps[gen.i], !.i = @ + 1, !.pc = "for"]
           ELSE gen' = [gen EXCEPT !.out = out, !.pc = "end"]
    /\ UNCHANGED <<split_in, split_out, ragvars, storevars, uivars>>

\* lines 56-58: "if buf: cur = buf", else the generator is exhausted
GenFlush ==
    /\ gen.pc = "flush"
    /\ IF gen.buf # <<>>
       THEN gen' = [gen EXCEPT !.cur = gen.buf, !.pc = "while_end"]
       ELSE gen' = [gen EXCEPT !.pc = "end"]
    /\ UNCHANGED <<split_in, split_out, ragvars, storevars, uivars>>

\* ------------------------------------------------------------ CaseManager
\* the titles the callers pass
Titles == {"t1"}

\* the question, answer and citations of the add_dialog calls: no citations
\* argument, an empty list, a list of one citation
Dialogs == {<<"q1", "a1", None>>,
            <<"q2", "a1", [kind |-> "list", items |-> <<>>]>>,
            <<"q2", "a1", [kind |-> "list", items |-> <<[text |-> "x", source |-> "s"]>>]>>}

\* datetime.now(): the wall clock, in half seconds; two readings can give
\* the same value
Now(c) == {t \in {c, c + 1} : t <= MaxClock}

\* datetime.isoformat(): the seconds, and the fraction unless it is zero
isoformat(t) == IF t % 2 = 0 THEN <<t \div 2>> ELSE <<t \div 2, 5>>

\* a < b for two strings (here: sequences of numbers), as Python compares
\* them: at the first position where they differ, else the shorter first
StrLess(a, b) ==
    \E i \in 1..Len(b) :
        /\ \A j \in 1..(i - 1) : j <= Len(a) /\ a[j] = b[j]
        /\ (i > Len(a) \/ a[i] < b[i])

\* json.dump(meta, f)
json_dump_meta(m) ==
    << <<"id", m.id>>, <<"title", m.title>>, <<"created_at", m.created_at>>,
       <<"updated_at", m.updated_at>>, <<"file_list", m.file_list>>,
       <<"total_chars", m.total_chars>> >>

\* json.load(f) of a meta.json
json_load_meta(j) ==
    [id |-> j[1][2], title |-> j[2][2], created_at |-> j[3][2], updated_at |-> j[4][2],
     file_list |-> j[5][2], total_chars |-> j[6][2]]

\* json.dumps(entry) of a dialog entry: one line of dialog.jsonl
json_dumps_entry(e) ==
    << <<"timestamp", e.timestamp>>, <<"question", e.question>>, <<"answer", e.answer>>,
       <<"citations", e.citations>>, <<"retrieved_chunks", e.retrieved_chunks>> >>

\* json.loads(line)
json_loads_entry(l) ==
    [timestamp |-> l[1][2], question |-> l[2][2], answer |-> l[3][2],
     citations |-> l[4][2], retrieved_chunks |-> l[5][2]]

\* CaseManager.get_case_meta: None when meta.json does not exist
get_case_meta(dir, case_id) ==
    IF dir[case_id] = Absent THEN None ELSE json_load_meta(dir[case_id].meta)

\* CaseManager.get_case_text: "" when full_text.txt does not exist
get_case_text(dir, case_id) ==
    IF dir[case_id] = Absent THEN <<>> ELSE dir[case_id].text

\* CaseManager._load_dialog_log: [] when dialog.jsonl does not exist, else
\* the entries of its lines
_load_dialog_log(dir, case_id) ==
    IF dir[case_id] = Absent THEN <<>>
    ELSE [i \in 1..Len(dir[case_id].dialog) |-> json_loads_entry(dir[case_id].dialog[i])]

\* CaseManager._save_dialog_log: the whole file is written again
_save_dialog_log(dir, case_id, dialog_log) ==
    [dir EXCEPT ![case_id].dialog =
        [i \in 1..Len(dialog_log) |-> json_dumps_entry(dialog_log[i])]]

\* every order in which os.listdir can give the entries S
Listings(S) ==
    {o \in [1..Cardinality(S) -> S] : \A i, j \in 1..Cardinality(S) : o[i] = o[j] => i = j}

\* cases.sort(key=lambda x: x['created_at'], reverse=True): descending by
\* created_at, cases of equal created_at stay in the order they had
RECURSIVE SortByCreatedDesc(_)
SortByCreatedDesc(cs) ==
    IF cs = <<>> THEN <<>>
    ELSE LET rest == SortByCreatedDesc(Tail(cs))
             x == Head(cs)
             \* x goes before the first case of rest that is not above it
             k == Cardinality({i \in 1..Len(rest) :
                                 \A j \in 1..i : StrLess(x.created_at, rest[j].created_at)})
         IN  SubSeq(rest, 1, k) \o <<x>> \o SubSeq(rest, k + 1, Len(rest))

\* the call that has just returned
Called(o, case_id, arg) == [op |-> o, case_id |-> case_id, arg |-> arg]

\* what a call leaves behind: the call, its result, and the cases and the
\* creation order as they were when it was made
Returns(c, val) ==
    /\ cm_call' = c
    /\ cm_ret' = [val |-> val]
    /\ cm_pre' = [cases_dir |-> cases_dir, files_dir |-> files_dir, created |-> created,
                  asked |-> asked]

\* a sequence without the element x
Without(seq, x) == SelectSeq(seq, LAMBDA y : y # x)

\* CaseManager.create_case(title); uuid4 gives an id that no existing case has
CreateCase(title) ==
    /\ calls < MaxCalls
    /\ \E case_id \in Ids, t1 \in Now(clock) : \E t2 \in Now(t1) :
          /\ cases_dir[case_id] = Absent
          /\ LET case_meta == [id |-> case_id, title |-> title,
                               created_at |-> isoformat(t1), updated_at |-> isoformat(t2),
                               file_list |-> <<>>, total_chars |-> 0]
             IN  /\ cases_dir' = [cases_dir EXCEPT ![case_id] =
                                     [meta |-> json_dump_meta(case_meta), text |-> <<>>,
                                      dialog |-> <<>>]]
                 /\ Returns(Called("create_case", case_id, title), case_meta)
          /\ clock' = t2
          /\ created' = Append(created, case_id)
          /\ asked' = [asked EXCEPT ![case_id] = <<>>]
    /\ calls' = calls + 1
    /\ UNCHANGED <<files_dir, ragvars, splitvars, uivars>>

\* CaseManager.get_all_cases()
GetAllCases ==
    /\ \E o \in Listings({c \in Ids : cases_dir[c] # Absent}) :
          LET cases == [i \in 1..Len(o) |-> get_case_meta(cases_dir, o[i])]
          IN  Returns(Called("get_all_cases", None, None), SortByCreatedDesc(cases))
    /\ UNCHANGED <<cases_dir, files_dir, clock, created, asked, calls, ragvars, splitvars, uivars>>

\* CaseManager.get_case_meta(case_id)
GetCaseMeta(case_id) ==
    /\ Returns(Called("get_case_meta", case_id, None), get_case_meta(cases_dir, case_id))
    /\ UNCHANGED <<cases_dir, files_dir, clock, created, asked, calls, ragvars, splitvars, uivars>>

\* AddDialog that saves a log of the new entry only
AddDialog_Overwrite(case_id, question, answer, citations) ==
    /\ calls < MaxCalls
    /\ \E t \in Now(clock) :
          LET dialog_entry == [timestamp |-> isoformat(t), question |-> question,
                               answer |-> answer,
                               citations |-> IF citations = None THEN <<>> ELSE citations.items,
                               retrieved_chunks |-> <<>>]
          IN  /\ clock' = t
              /\ IF cases_dir[case_id] = Absent
                 THEN /\ cases_dir' = cases_dir
                      /\ asked' = asked
                      /\ Returns(Called("add_dialog", case_id, <<question, answer, citations>>),
                                 FALSE)
                 ELSE /\ cases_dir' = _save_dialog_log(cases_dir, case_id, <<dialog_entry>>)
                      /\ asked' = [asked EXCEPT ![case_id] =
                                      Append(@, <<question, answer, citations>>)]
                      /\ Returns(Called("add_dialog", case_id, <<question, answer, citations>>),
                                 TRUE)
    /\ calls' = calls + 1
    /\ UNCHANGED <<files_dir, created, ragvars, splitvars, uivars>>

\* CaseManager.add_dialog(case_id, question, answer, citations): the log is
\* loaded, the entry appended and the log saved; open(log_path, 'w') raises
\* when the directory of the case does not exist, and False is returned
AddDialog(case_id, question, answer, citations) ==
    /\ calls < MaxCalls
    /\ \E t \in Now(clock) :
          LET dialog_log == _load_dialog_log(cases_dir, case_id)
              dialog_entry == [timestamp |-> isoformat(t), question |-> question,
                               answer |-> answer,
                               citations |-> IF citations = None THEN <<>> ELSE citations.items,
                               retrieved_chunks |-> <<>>]
          IN  /\ clock' = t
              /\ IF cases_dir[case_id] = Absent
                 THEN /\ cases_dir' = cases_dir
                      /\ asked' = asked
                      /\ Returns(Called("add_dialog", case_id, <<question, answer, citations>>),
                                 FALSE)
                 ELSE /\ cases_dir' = _save_dialog_log(cases_dir, case_id,
                                                      Append(dialog_log, dialog_entry))
                      /\ asked' = [asked EXCEPT ![case_id] =
                                      Append(@, <<question, answer, citations>>)]
                      /\ Returns(Called("add_dialog", case_id, <<question, answer, citations>>),
                                 TRUE)
    /\ calls' = calls + 1
    /\ UNCHANGED <<files_dir, created, ragvars, splitvars, uivars>>

\* CaseManager.get_dialog_history(case_id)
GetDialogHistory(case_id) ==
    /\ Returns(Called("get_dialog_history", case_id, None), _load_dialog_log(cases_dir, case_id))
    /\ UNCHANGED <<cases_dir, files_dir, clock, created, asked, calls, ragvars, splitvars, uivars>>

\* DeleteCase that answers True whether or not the case exists
\* (shutil.rmtree(case_dir, ignore_errors=True) without the check)
DeleteCase_AlwaysTrue(case_id) ==
    /\ calls < MaxCalls
    /\ cases_dir' = [cases_dir EXCEPT ![case_id] = Absent]
    /\ Returns(Called("delete_case", case_id, None), TRUE)
    /\ files_dir' = [files_dir EXCEPT ![case_id] = NoFiles]
    /\ created' = Without(created, case_id)
    /\ asked' = [asked EXCEPT ![case_id] = <<>>]
    /\ calls' = calls + 1
    /\ UNCHANGED <<clock, ragvars, splitvars, uivars>>

\* CaseManager.delete_case(case_id)
DeleteCase(case_id) ==
    /\ calls < MaxCalls
    /\ IF cases_dir[case_id] # Absent
       THEN /\ cases_dir' = [cases_dir EXCEPT ![case_id] = Absent]
            /\ Returns(Called("delete_case", case_id, None), TRUE)
       ELSE /\ cases_dir' = cases_dir
            /\ Returns(Called("delete_case", case_id, None), FALSE)
    /\ files_dir' = [files_dir EXCEPT ![case_id] = NoFiles]
    /\ created' = Without(created, case_id)
    /\ asked' = [asked EXCEPT ![case_id] = <<>>]
    /\ calls' = calls + 1
    /\ UNCHANGED <<clock, ragvars, splitvars, uivars>>

\* ---------------------------------------------------------- FileProcessor
\* a str result, as opposed to None
Str(s) == [kind |-> "str", val |-> s]

\* file extensions of the paths given to extract_text_from_file
Exts == {".pdf", ".PDF", ".docx", ".doc", ".txt", ".md", ".png"}

\* str.lower() of an extension
lower(ext) == IF ext = ".PDF" THEN ".pdf" ELSE ext

\* what a file can hold: a PDF document (its pages), a Word document in the
\* docx format (its paragraphs), a Word document in the old binary format,
\* or a text in an encoding ("none": bytes that are valid in no encoding
\* extract_text_from_txt tries)
PdfData == [fmt |-> "pdf", pages |-> << <<" ", "a">>, <<"b">> >>]
DocxData == [fmt |-> "docx", paragraphs |-> << <<"a">>, <<"b", " ">> >>]
DocData == [fmt |-> "doc"]
TextData == {[fmt |-> "text", enc |-> e, text |-> x] :
                e \in {"utf-8", "gbk", "utf-16", "none"},
                x \in {<<" ", "a", "\n">>, <<"b">>, <<>>}}
Datas == {PdfData, DocxData, DocData} \cup TextData

\* the paths: a path that names no file, and files of every extension; a
\* file named .txt or .md holds text
Paths ==
    {[exists |-> FALSE, ext |-> x, data |-> None] : x \in Exts}
    \cup {p \in [exists : {TRUE}, ext : Exts, data : Datas] :
             p.ext \in {".txt", ".md"} => p.data.fmt = "text"}

\* text += piece + "\n" for every piece
RECURSIVE JoinLines(_)
JoinLines(pieces) ==
    IF pieces = <<>> THEN <<>> ELSE Head(pieces) \o <<"\n">> \o JoinLines(Tail(pieces))

\* FileProcessor.extract_text_from_pdf: PdfReader raises on anything but a PDF
extract_text_from_pdf(data) ==
    IF data.fmt = "pdf" THEN Str(Strip(JoinLines(data.pages))) ELSE None

\* FileProcessor.extract_text_from_docx: Document raises on anything but docx
extract_text_from_docx(data) ==
    IF data.fmt = "docx" THEN Str(Strip(JoinLines(data.paragraphs))) ELSE None

\* the notice extract_text_from_doc returns when docx2txt is not installed
DocNotice == <<"[", "d", "o", "c", "]">>

\* FileProcessor.extract_text_from_doc: docx2txt reads the docx format only
extract_text_from_doc(data, has_docx2txt) ==
    IF has_docx2txt
    THEN IF data.fmt = "docx"
         THEN LET text == JoinLines(data.paragraphs)
              IN  IF text # <<>> THEN Str(Strip(text)) ELSE None
         ELSE None
    ELSE Str(DocNotice)

\* FileProcessor.extract_text_from_txt: the first of the encodings under
\* which the file decodes (gb2312 decodes nothing that gbk does not)
extract_text_from_txt(data) ==
    LET encodings == <<"utf-8", "gbk", "gb2312", "utf-16">>
        ok == {i \in 1..Len(encodings) : data.fmt = "text" /\ data.enc = encodings[i]}
    IN  IF ok = {} THEN None ELSE Str(Strip(data.text))

\* FileProcessor.extract_text_from_file
extract_text_from_file(path, has_docx2txt) ==
    IF ~path.exists THEN None
    ELSE LET file_ext == lower(path.ext)
         IN  IF file_ext = ".pdf" THEN extract_text_from_pdf(path.data)
             ELSE IF file_ext = ".docx" THEN extract_text_from_docx(path.data)
             ELSE IF file_ext = ".doc" THEN extract_text_from_doc(path.data, has_docx2txt)
             ELSE IF file_ext \in {".txt", ".md"} THEN extract_text_from_txt(path.data)
             ELSE None

\* FileProcessor.get_supported_extensions
get_supported_extensions == <<".pdf", ".docx", ".doc", ".txt", ".md">>

\* extract_text_from_file(path) is called, in a process where docx2txt is
\* installed or is not
ExtractTextFromFile(path) ==
    /\ \E has_docx2txt \in BOOLEAN :
          Returns(Called("extract_text_from_file", None, path),
                  extract_text_from_file(path, has_docx2txt))
    /\ UNCHANGED <<cases_dir, files_dir, clock, created, asked, calls, ragvars, splitvars, uivars>>

\* get_supported_extensions() is called
GetSupportedExtensions ==
    /\ Returns(Called("get_supported_extensions", None, None), get_supported_extensions)
    /\ UNCHANGED <<cases_dir, files_dir, clock, created, asked, calls, ragvars, splitvars, uivars>>

\* ------------------------------------------------- CaseManager, the files
\* what is uploaded: an object named x.txt with a text of one character, a
\* text with white space around it, no byte at all, or bytes that are valid
\* in no encoding; its getbuffer() and read() work, or both raise
Uploads ==
    [data : {[fmt |-> "text", enc |-> "utf-8", text |-> <<"b">>],
             [fmt |-> "text", enc |-> "utf-8", text |-> <<" ", "a", "\n">>],
             [fmt |-> "text", enc |-> "utf-8", text |-> <<>>],
             [fmt |-> "text", enc |-> "none", text |-> <<"b">>]},
     works : BOOLEAN]

\* _write_uploaded(target, uploaded_file): what target holds afterwards and
\* the number returned. open(target, "wb") makes the file before read() is
\* called and raises
_write_uploaded(uploaded_file) ==
    IF uploaded_file.works
    THEN [file |-> uploaded_file.data, n |-> Len(uploaded_file.data.text)]
    ELSE [file |-> [fmt |-> "text", enc |-> "utf-8", text |-> <<>>], n |-> 0]

\* extract_text_from_file(path) or "", for a file of the files directory
Extracted(content) ==
    LET r == extract_text_from_file([exists |-> TRUE, ext |-> ".txt", data |-> content], TRUE)
    IN  IF r = None THEN <<>> ELSE r.val

\* CaseManager._save_case_meta
_save_case_meta(dir, case_id, meta) == [dir EXCEPT ![case_id].meta = json_dump_meta(meta)]

\* CaseManager._save_case_text
_save_case_text(dir, case_id, text) == [dir EXCEPT ![case_id].text = text]

\* lines 228-232: the first of base + ext, base(1) + ext, ... that is not there
FreeTarget(files) ==
    Target("x", CHOOSE n \in 0..MaxCalls :
                    /\ files[Target("x", n, ".txt")] = Absent
                    /\ \A k \in 0..(n - 1) : files[Target("x", k, ".txt")] # Absent,
           ".txt")

\* CaseManager.upload_file_to_case(case_id, uploaded_file)
UploadFileToCase(case_id, uploaded_file) ==
    /\ calls < MaxCalls
    /\ calls' = calls + 1
    /\ IF cases_dir[case_id] = Absent
       THEN /\ Returns(Called("upload_file_to_case", case_id, uploaded_file), FALSE)
            /\ UNCHANGED <<cases_dir, files_dir, clock>>
       ELSE LET target == FreeTarget(files_dir[case_id])
                w == _write_uploaded(uploaded_file)
            IN  IF w.n <= 0
                THEN /\ files_dir' = [files_dir EXCEPT ![case_id][target] = w.file]
                     /\ Returns(Called("upload_file_to_case", case_id, uploaded_file), FALSE)
                     /\ UNCHANGED <<cases_dir, clock>>
                ELSE \E t1 \in Now(clock) : \E t2 \in Now(t1) :
                        LET extracted_text == Extracted(w.file)
                            current_text == get_case_text(cases_dir, case_id)
                            new_text == IF extracted_text = <<>> THEN current_text
                                        ELSE IF current_text # <<>>
                                             THEN current_text \o <<"\n", "\n">> \o extracted_text
                                             ELSE extracted_text
                            case_meta == get_case_meta(cases_dir, case_id)
                            entry == [filename |-> target, path |-> <<case_id, target>>,
                                      size |-> w.n, added_at |-> isoformat(t1),
                                      chars |-> Len(extracted_text)]
                        IN  /\ files_dir' = [files_dir EXCEPT ![case_id][target] = w.file]
                            /\ cases_dir' = _save_case_meta(
                                   _save_case_text(cases_dir, case_id, new_text), case_id,
                                   [case_meta EXCEPT !.file_list = Append(@, entry),
                                                     !.total_chars = Len(new_text),
                                                     !.updated_at = isoformat(t2)])
                            /\ clock' = t2
                            /\ Returns(Called("upload_file_to_case", case_id, uploaded_file), TRUE)
    /\ UNCHANGED <<created, asked, ragvars, splitvars, uivars>>

\* lines 372-382: the texts of the files of file_list that exist, joined
RECURSIVE RebuildText(_, _)
RebuildText(file_list, files) ==
    IF file_list = <<>> THEN <<>>
    ELSE LET n == Len(file_list)
             new_text == RebuildText(SubSeq(file_list, 1, n - 1), files)
             file_path == file_list[n].path
             extracted_text == IF files[file_path[2]] = Absent THEN <<>>
                               ELSE Extracted(files[file_path[2]])
         IN  IF extracted_text = <<>> THEN new_text
             ELSE IF new_text # <<>> THEN new_text \o <<"\n", "\n">> \o extracted_text
             ELSE extracted_text

\* CaseManager.delete_file_from_case(case_id, filename)
DeleteFileFromCase(case_id, filename) ==
    /\ calls < MaxCalls
    /\ calls' = calls + 1
    /\ IF cases_dir[case_id] = Absent \/ files_dir[case_id][filename] = Absent
       THEN /\ Returns(Called("delete_file_from_case", case_id, filename), FALSE)
            /\ UNCHANGED <<cases_dir, files_dir, clock>>
       ELSE \E t \in Now(clock) :
               LET files == [files_dir[case_id] EXCEPT ![filename] = Absent]
                   case_meta == get_case_meta(cases_dir, case_id)
                   file_list == SelectSeq(case_meta.file_list, LAMBDA f : f.filename # filename)
                   new_text == RebuildText(file_list, files)
               IN  /\ files_dir' = [files_dir EXCEPT ![case_id] = files]
                   /\ cases_dir' = _save_case_meta(
                          _save_case_text(cases_dir, case_id, new_text), case_id,
                          [case_meta EXCEPT !.file_list = file_list,
                                            !.total_chars = Len(new_text),
                                            !.updated_at = isoformat(t)])
                   /\ clock' = t
                   /\ Returns(Called("delete_file_from_case", case_id, filename), TRUE)
    /\ UNCHANGED <<created, asked, ragvars, splitvars, uivars>>

\* ---------------------------------------------------------- specifications
\* the steps of thread t, which calls the methods of the services svcs and
\* retrieves with the queries qs and the limits ks; env is "faulty" when
\* the embedding model and the writes of files can fail, else "reliable"
Step(t, svcs, qs, ks, env) ==
    \/ \E s \in svcs : BuildCorpus(t, s)
    \/ GetModelTest(t)
    \/ BuildEmbed(t, env)
    \/ BuildWriteIndex(t, env)
    \/ BuildWriteMeta(t, env)
    \/ BuildSetIndex(t)
    \/ BuildSetMeta(t)
    \/ \E s \in svcs : LoadCall(t, s)
    \/ LoadReadIndex(t)
    \/ LoadReadMeta(t)
    \/ \E s \in svcs, q \in qs, k \in ks : RetrieveCheck(t, s, q, k)
    \/ RetrieveEmbed(t, env)
    \/ RetrieveSearch(t)
    \/ RetrieveCollect(t)
    \/ Return(t)

Edit == \E f \in Files, c \in UNION {FileContents(g) : g \in Files} : EditCorpus(f, c)

\* an edit that can also save a long law file or a second .txt file
EditLong ==
    \E f \in Files, c \in UNION {FileContents(g) \cup LongContents(g) : g \in Files} :
        EditCorpus(f, c)

\* one caller of one service, the methods run one after the other; the
\* embedding model and the writes of the two files can fail
Next ==
    \/ Step("t1", {"A"}, Queries, TopKs, "faulty")
    \/ IsIndexAvailable("t1", "A")
    \/ Edit
    \/ Construct("A")

Spec == Init /\ [][Next]_vars

\* one caller of two services over the same index directory, the methods
\* run one after the other; nothing fails
PairNext ==
    \/ Step("t1", Services, Queries, {MaxTopK}, "reliable")
    \/ Edit
    \/ \E s \in Services : Construct(s)

PairSpec == Init /\ [][PairNext]_vars

\* two callers of one service (two threads of one process), the steps of
\* their methods interleave: t1 builds and loads, t2 also retrieves;
\* nothing fails
ConcNext ==
    \/ Step("t1", {"A"}, {}, {}, "reliable")
    \/ Step("t2", {"A"}, {<<"a">>}, {MaxTopK}, "reliable")
    \/ Edit

ConcSpec == Init /\ [][ConcNext]_vars

\* one caller of one service that builds, one build after the other, over
\* a corpus that can hold files of more than one chunk; nothing fails
BuildNext ==
    \/ BuildCorpus("t1", "A")
    \/ GetModelTest("t1")
    \/ BuildEmbed("t1", "reliable")
    \/ BuildWriteIndex("t1", "reliable")
    \/ BuildWriteMeta("t1", "reliable")
    \/ BuildSetIndex("t1")
    \/ BuildSetMeta("t1")
    \/ Return("t1")
    \/ EditLong

BuildSpec == Init /\ [][BuildNext]_vars

\* one call of the chunker, on every text and every pair of parameters
SplitInit ==
    /\ RagInit
    /\ StoreInit
    /\ UiInit
    /\ split_in \in SplitInputs
    /\ split_out = None
    /\ gen = [pc |-> "none"]

SplitSpec == SplitInit /\ [][Split]_vars

\* one run of the generator, step by step, on every text and every pair of
\* parameters; the consumer (list(), enumerate() in build_index) asks for
\* the next chunk until the generator is exhausted
GenNext ==
    \/ gen.pc = "none" /\ \E i \in GenInputs : GenStart(i)
    \/ GenFor
    \/ GenWindow
    \/ GenRest
    \/ GenFlush

GenSpec == Init /\ [][GenNext]_vars

\* the generator is run on: a step that can be taken is taken
GenFair == GenSpec /\ WF_vars(GenNext)

\* one caller of one CaseManager and of the FileProcessor, the calls made
\* one after the other
StoreNext ==
    \/ \E title \in Titles : CreateCase(title)
    \/ GetAllCases
    \/ \E case_id \in Ids : GetCaseMeta(case_id)
    \/ \E case_id \in Ids, d \in Dialogs : AddDialog(case_id, d[1], d[2], d[3])
    \/ \E case_id \in Ids : GetDialogHistory(case_id)
    \/ \E case_id \in Ids : DeleteCase(case_id)

StoreSpec == Init /\ [][StoreNext]_vars

\* one caller of the FileProcessor
FileNext ==
    \/ \E path \in Paths : ExtractTextFromFile(path)
    \/ GetSupportedExtensions

FileSpec == Init /\ [][FileNext]_vars

\* one caller of one CaseManager: cases are made and files are uploaded to
\* them and deleted from them
UploadNext ==
    \/ \E title \in Titles : CreateCase(title)
    \/ \E case_id \in Ids, uploaded_file \in Uploads : UploadFileToCase(case_id, uploaded_file)
    \/ \E case_id \in Ids, filename \in TargetNames : DeleteFileFromCase(case_id, filename)

UploadSpec == Init /\ [][UploadNext]_vars

\* ------------------------------------------------ render_sidebar, law files
\* os.listdir("legal_corpus") filtered by the four extensions: every name of
\* Files ends with .txt or .md
law_files == {f \in Files : exists(corpus[f])}

is_selected(u, f) == \E i \in 1..Len(selected_laws[u]) : selected_laws[u][i] = f

\* list.remove(x): the first x is taken out
remove(seq, x) ==
    LET i == CHOOSE j \in 1..Len(seq) : seq[j] = x /\ \A k \in 1..(j - 1) : seq[k] # x
    IN  SubSeq(seq, 1, i - 1) \o SubSeq(seq, i + 1, Len(seq))

\* the button of law file f: it is selected if it was not, and not if it was
ToggleLaw(u, f) ==
    /\ f \in law_files
    /\ selected_laws' = [selected_laws EXCEPT
           ![u] = IF is_selected(u, f) THEN remove(selected_laws[u], f)
                  ELSE Append(selected_laws[u], f)]
    /\ sidebar' = [sidebar EXCEPT ![u] = NoMessage]
    /\ UNCHANGED <<show_delete_confirm, ragvars, splitvars, storevars>>

\* the delete button of law file f
RequestDelete(u, f) ==
    /\ f \in law_files
    /\ show_delete_confirm' = [show_delete_confirm EXCEPT ![u] = Str(f)]
    /\ sidebar' = [sidebar EXCEPT ![u] = NoMessage]
    /\ UNCHANGED <<selected_laws, ragvars, splitvars, storevars>>

\* the confirmation is drawn where there is a law file and
\* show_delete_confirm holds a name
ConfirmShown(u) == law_files # {} /\ show_delete_confirm[u] # None

\* a confirm button that forgets the selection
ConfirmDelete_KeepSelected(u) ==
    /\ ConfirmShown(u)
    /\ LET filename == show_delete_confirm[u].val
       IN  \E out \in (IF exists(corpus[filename]) THEN {"ok", "raised"} ELSE {"raised"}) :
               IF out = "ok"
               THEN /\ corpus' = [corpus EXCEPT ![filename] = Absent]
                    /\ selected_laws' = selected_laws
                    /\ sidebar' = [sidebar EXCEPT ![u] = [kind |-> "success", file |-> filename]]
                    /\ show_delete_confirm' = [show_delete_confirm EXCEPT ![u] = None]
               ELSE /\ sidebar' = [sidebar EXCEPT ![u] = [kind |-> "error", file |-> filename]]
                    /\ UNCHANGED <<corpus, selected_laws, show_delete_confirm>>
    /\ UNCHANGED <<edits, disk, model, index, metadata, pc, call, loc, ret, pre, loads, built,
                   splitvars, storevars>>

\* the confirm button; os.remove(path) raises when the file is not there,
\* and can raise when it is
ConfirmDelete(u) ==
    /\ ConfirmShown(u)
    /\ LET filename == show_delete_confirm[u].val
       IN  \E out \in (IF exists(corpus[filename]) THEN {"ok", "raised"} ELSE {"raised"}) :
               IF out = "ok"
               THEN /\ corpus' = [corpus EXCEPT ![filename] = Absent]
                    /\ selected_laws' = [selected_laws EXCEPT
                           ![u] = IF is_selected(u, filename)
                                  THEN remove(selected_laws[u], filename)
                                  ELSE selected_laws[u]]
                    /\ sidebar' = [sidebar EXCEPT ![u] = [kind |-> "success", file |-> filename]]
                    /\ show_delete_confirm' = [show_delete_confirm EXCEPT ![u] = None]
               ELSE /\ sidebar' = [sidebar EXCEPT ![u] = [kind |-> "error", file |-> filename]]
                    /\ UNCHANGED <<corpus, selected_laws, show_delete_confirm>>
    /\ UNCHANGED <<edits, disk, model, index, metadata, pc, call, loc, ret, pre, loads, built,
                   splitvars, storevars>>

\* the cancel button
CancelDelete(u) ==
    /\ ConfirmShown(u)
    /\ show_delete_confirm' = [show_delete_confirm EXCEPT ![u] = None]
    /\ sidebar' = [sidebar EXCEPT ![u] = NoMessage]
    /\ UNCHANGED <<selected_laws, ragvars, splitvars, storevars>>

\* the save button, one uploaded file named f with the bytes c: the file is
\* written whether it was there or not
SaveLaws(u, f, c) ==
    /\ edits < MaxEdits
    /\ c \in FileContents(f) \ {Absent}
    /\ corpus' = [corpus EXCEPT ![f] = c]
    /\ edits' = edits + 1
    /\ sidebar' = [sidebar EXCEPT ![u] = [kind |-> "success", file |-> "saved"]]
    /\ UNCHANGED <<disk, model, index, metadata, pc, call, loc, ret, pre, loads, built,
                   selected_laws, show_delete_confirm, splitvars, storevars>>

\* two sessions at the sidebar, one run of the script at a time
SidebarNext ==
    \/ \E u \in Sessions, f \in Files : ToggleLaw(u, f)
    \/ \E u \in Sessions, f \in Files : RequestDelete(u, f)
    \/ \E u \in Sessions : ConfirmDelete(u)
    \/ \E u \in Sessions : CancelDelete(u)
    \/ \E u \in Sessions, f \in Files, c \in UNION {FileContents(g) : g \in Files} : SaveLaws(u, f, c)

SidebarSpec == Init /\ [][SidebarNext]_vars


\* ------------------------------------------------------------ properties
\* thread t has returned from method op
Done(t, op) == pc[t] = "done" /\ call[t].op = op

\* no method is running
Quiescent == \A t \in Threads : pc[t] \in {"idle", "done"}

\* index ix and metadata md come from one build: row i of ix is the
\* normalized embedding of the text of record i of md
FromOneBuild(ix, md) ==
    /\ ix # None
    /\ ix.ntotal = Len(md)
    /\ \A i \in 1..Len(md) : ix.xb[i] = _norm1(encode(md[i].text))

IsFile(f) == f \notin {Absent, Corrupt}

\* the two files of the index directory come from one build
DiskFromOneBuild ==
    /\ IsFile(disk.idx)
    /\ IsFile(disk.meta)
    /\ FromOneBuild(read_index(disk.idx), pickle_load(disk.meta))

\* scores of a result list never increase
NonIncreasing(results) ==
    \A i \in 1..(Len(results) - 1) : results[i].score >= results[i + 1].score

\* the (source, chunk_id, score) tuples of a result list
Tuples(results) ==
    [i \in 1..Len(results) |-> <<results[i].source, results[i].chunk_id, results[i].score>>]

\* no file of corpus c gives a chunk: every file is missing, unreadable or
\* holds whitespace only
NothingToIndex(c) ==
    \A f \in Files : \/ c[f] \in {Absent, Unreadable}
                     \/ \A i \in 1..Len(c[f].text) : IsSpace(c[f].text[i])

\* C1: once a build_index() on a service has returned True, the service
\* holds as many metadata records as its index has rows, whatever build_index,
\* load_index and retrieve calls follow (checked whenever no method runs).
C1_LengthsEqualAfterBuild ==
    \A s \in Services :
        (built[s] /\ Quiescent) => (index[s] # None /\ index[s].ntotal = Len(metadata[s]))

\* C2: after every build_index() call the index file and the metadata file
\* are both as they were before the call, or both come from one build.
C2_NoPartialIndexPersisted ==
    \A t \in Threads : Done(t, "build") => (disk = pre[t].disk \/ DiskFromOneBuild)

\* C3: every build_index() or load_index() call that fails leaves the held
\* index and the held metadata as they were, and every call that succeeds
\* has installed both (a build: the pair of that build; a load: the contents
\* of the two files).
C3_ReplacedTogetherOrNotAtAll ==
    \A t \in Threads :
        (Done(t, "build") \/ Done(t, "load")) =>
            LET s == call[t].svc
            IN  IF ret[t].val = TRUE
                THEN IF call[t].op = "build"
                     THEN FromOneBuild(index[s], metadata[s])
                     ELSE /\ index[s] = read_index(disk.idx)
                          /\ metadata[s] = pickle_load(disk.meta)
                ELSE index[s] = pre[t].index /\ metadata[s] = pre[t].metadata

\* C4: a retrieve on a service that held an index and metadata of equal
\* length when it was called never uses an index together with a metadata
\* list of another length (at r_collect it has searched an index of
\* loc.ntotal rows and reads self.metadata next).
C4_RetrieveSeesEqualLengths ==
    \A t \in Threads :
        (/\ pc[t] = "r_collect"
         /\ pre[t].index # None
         /\ pre[t].index.ntotal = Len(pre[t].metadata))
        => loc[t].ntotal = Len(metadata[call[t].svc])

\* C5: when two build_index() calls have both returned True, the two files
\* come from one build and so does the pair each built service holds.
C5_BuildsSerialized ==
    (\A t \in Threads : Done(t, "build") /\ ret[t].val = TRUE) =>
        /\ DiskFromOneBuild
        /\ \A t \in Threads : FromOneBuild(index[call[t].svc], metadata[call[t].svc])

\* C6: a build_index() called on a corpus that gives no chunk (no file, no
\* readable file, whitespace only) returns False and leaves the two files,
\* the held index and the held metadata as they were.
C6_EmptyCorpusBuildFails ==
    \A t \in Threads :
        (Done(t, "build") /\ NothingToIndex(pre[t].corpus)) =>
            /\ ret[t].val = FALSE
            /\ disk = pre[t].disk
            /\ index[call[t].svc] = pre[t].index
            /\ metadata[call[t].svc] = pre[t].metadata

\* a Ready service whose files exist has returned from a build on a corpus of
\* whitespace only, and it is still Ready
C6_Witness ==
    \E t \in Threads :
        /\ Done(t, "build")
        /\ NothingToIndex(pre[t].corpus)
        /\ ret[t].why = "no_chunks"
        /\ pre[t].index # None
        /\ IsFile(pre[t].disk.idx)

\* C7: a build_index() that ends because the embedding model cannot be
\* loaded or encode raises returns False, leaves the held index, the held
\* metadata and the two files as they were, and retrieve answers as before.
C7_BuildFailsCleanly ==
    \A t \in Threads :
        (Done(t, "build") /\ ret[t].why \in {"load_fail", "encode_fail"}) =>
            LET s == call[t].svc
            IN  /\ ret[t].val = FALSE
                /\ index[s] = pre[t].index
                /\ metadata[s] = pre[t].metadata
                /\ disk = pre[t].disk
                /\ \A q \in Queries, k \in TopKs :
                      Retrieved(index[s], metadata[s], q, k)
                          = Retrieved(pre[t].index, pre[t].metadata, q, k)

\* a Ready service has returned from a build in which encode raised
C7_Witness ==
    \E t \in Threads :
        /\ Done(t, "build")
        /\ ret[t].why = "encode_fail"
        /\ built[call[t].svc]
        /\ pre[t].index # None
        /\ Retrieved(pre[t].index, pre[t].metadata, <<"a">>, 1) # <<>>

\* C8: a retrieve on a service that holds no index, with the index file or
\* the metadata file absent, returns the empty list after exactly one
\* load_index() attempt.
C8_RetrieveWithoutIndexIsEmpty ==
    \A t \in Threads :
        (/\ Done(t, "retrieve")
         /\ pre[t].index = None
         /\ (pre[t].disk.idx = Absent \/ pre[t].disk.meta = Absent))
        => (ret[t].val = <<>> /\ ret[t].why = "missing" /\ loads[t] = 1)

\* such a retrieve has returned, with the index file present and the
\* metadata file absent
C8_Witness ==
    \E t \in Threads :
        /\ Done(t, "retrieve")
        /\ pre[t].index = None
        /\ IsFile(pre[t].disk.idx)
        /\ pre[t].disk.meta = Absent
        /\ call[t].top_k > 0

\* C9: every list retrieve returns is in non-increasing score order, and so
\* is the list it would return for every query and top_k on every index and
\* metadata a service holds.
C9_ResultsNonIncreasing ==
    /\ \A t \in Threads : Done(t, "retrieve") => NonIncreasing(ret[t].val)
    /\ \A s \in Services, q \in Queries, k \in TopKs :
          NonIncreasing(Retrieved(index[s], metadata[s], q, k))

\* a retrieve has returned two results of different scores and has skipped
\* a padded row id
C9_Witness ==
    \E t \in Threads :
        /\ Done(t, "retrieve")
        /\ Len(ret[t].val) >= 2
        /\ ret[t].val[1].score > ret[t].val[2].score
        /\ call[t].top_k > Len(ret[t].val)

\* the two files as a successful build that installs ix and md leaves them
Persisted(ix, md) == [idx |-> write_index(ix), meta |-> pickle_dump(md)]

\* C10: a build_index() that returns True leaves on disk the pair it
\* installed; and a load_index() that returns True on another service while
\* the files are those a built service A persisted gives that service an index
\* and metadata equal to A's, so every retrieve returns the same
\* (source, chunk_id, score) tuples on both.
C10_RoundTrip ==
    /\ \A t \in Threads :
          (Done(t, "build") /\ ret[t].val = TRUE) =>
              disk = Persisted(index[call[t].svc], metadata[call[t].svc])
    /\ \A t \in Threads :
          (Done(t, "load") /\ ret[t].val = TRUE) =>
              \A a \in Services \ {call[t].svc} :
                  (built[a] /\ index[a] # None /\ disk = Persisted(index[a], metadata[a])) =>
                      LET b == call[t].svc
                      IN  /\ index[b] = index[a]
                          /\ metadata[b] = metadata[a]
                          /\ \A q \in Queries, k \in TopKs :
                                Tuples(Retrieved(index[b], metadata[b], q, k))
                                    = Tuples(Retrieved(index[a], metadata[a], q, k))

\* a fresh service B has loaded the two-row index that service A built
C10_Witness ==
    \E t \in Threads :
        /\ Done(t, "load")
        /\ ret[t].val = TRUE
        /\ call[t].svc = "B"
        /\ pre[t].index = None
        /\ built["A"]
        /\ disk = Persisted(index["A"], metadata["A"])
        /\ Len(Retrieved(index["B"], metadata["B"], <<"a">>, MaxTopK)) >= 2

\* C11: a load_index() called while the index file or the metadata file is
\* absent returns False through the existence check (nothing is raised) and
\* leaves the held index and the held metadata as they were; a load_index()
\* that returns True found both files and holds what the two files contain.
C11_LoadFailsWhenFileAbsent ==
    \A t \in Threads :
        Done(t, "load") =>
            LET s == call[t].svc
            IN  /\ (pre[t].disk.idx = Absent \/ pre[t].disk.meta = Absent) =>
                      /\ ret[t].val = FALSE
                      /\ ret[t].why = "missing"
                      /\ index[s] = pre[t].index
                      /\ metadata[s] = pre[t].metadata
                /\ ret[t].val = TRUE =>
                      /\ IsFile(pre[t].disk.idx)
                      /\ IsFile(pre[t].disk.meta)
                      /\ index[s] = read_index(pre[t].disk.idx)
                      /\ metadata[s] = pickle_load(pre[t].disk.meta)

\* a load_index() has returned False with the index file present and the
\* metadata file absent
C11_Witness ==
    \E t \in Threads :
        /\ Done(t, "load")
        /\ IsFile(pre[t].disk.idx)
        /\ pre[t].disk.meta = Absent
        /\ ret[t].val = FALSE

\* C12: is_index_available() returns True exactly when the index file and
\* the metadata file both exist, whether or not the service holds an index.
C12_AvailableIffBothFilesExist ==
    \A t \in Threads :
        Done(t, "available") =>
            (ret[t].val = TRUE <=> (pre[t].disk.idx # Absent /\ pre[t].disk.meta # Absent))

\* a service that holds no index has answered True
C12_Witness ==
    \E t \in Threads :
        /\ Done(t, "available")
        /\ ret[t].val = TRUE
        /\ index[call[t].svc] = None

\* a text has a blank-line paragraph break: two newlines with nothing but
\* whitespace between them
HasBlankLine(txt) ==
    \E i \in 1..Len(txt), j \in 1..Len(txt) :
        /\ i < j
        /\ txt[i] = "\n"
        /\ txt[j] = "\n"
        /\ \A k \in (i + 1)..(j - 1) : IsSpace(txt[k])

\* the chunker has returned
Chunked == split_out # None

\* C13 as stated: a text with no blank-line break (line endings read as
\* newlines) and of trimmed length at most chunk_size gives exactly one
\* chunk, the trimmed input.
C13_OneChunkEqualsTrimmedInput ==
    (/\ Chunked
     /\ ~HasBlankLine(NormalizeNewlines(split_in.text))
     /\ Len(Strip(split_in.text)) <= split_in.size)
    => split_out.val = <<Strip(split_in.text)>>

\* C13 amended: a text with no blank-line break and of trimmed length at
\* least 1 and at most chunk_size gives exactly one chunk, the trimmed input
\* with every "\r\n" and every other "\r" replaced by "\n".
C13_OneChunkEqualsTrimmedNormalized ==
    (/\ Chunked
     /\ ~HasBlankLine(NormalizeNewlines(split_in.text))
     /\ Len(Strip(split_in.text)) >= 1
     /\ Len(Strip(split_in.text)) <= split_in.size)
    => split_out.val = <<Strip(NormalizeNewlines(split_in.text))>>

\* the chunker has returned one chunk for a text that it had to trim and
\* whose line ending it had to replace
C13_Witness ==
    /\ Chunked
    /\ ~HasBlankLine(NormalizeNewlines(split_in.text))
    /\ Len(Strip(split_in.text)) >= 1
    /\ Len(Strip(split_in.text)) <= split_in.size
    /\ Len(Strip(split_in.text)) < Len(split_in.text)
    /\ \E i \in 1..Len(split_in.text) : split_in.text[i] = "\r"
    /\ Len(split_out.val) = 1

\* C14: a single paragraph (no blank-line break) whose trimmed length is
\* above chunk_size is cut into chunks of at most chunk_size characters, all
\* but the last of exactly chunk_size, and each chunk after the first starts
\* with the last overlap characters of the chunk before it.
C14_SlidingWindow ==
    (/\ Chunked
     /\ ~HasBlankLine(NormalizeNewlines(split_in.text))
     /\ Len(Strip(NormalizeNewlines(split_in.text))) > split_in.size)
    => LET c == split_out.val
           size == split_in.size
           overlap == split_in.overlap
       IN  /\ Len(c) >= 2
           /\ \A i \in 1..Len(c) : Len(c[i]) <= size
           /\ \A i \in 1..(Len(c) - 1) :
                 /\ Len(c[i]) = size
                 /\ Len(c[i + 1]) >= overlap
                 /\ SubSeq(c[i + 1], 1, overlap) = SubSeq(c[i], size - overlap + 1, size)

\* a paragraph has been cut into three or more chunks that overlap, the
\* last one shorter than chunk_size
C14_Witness ==
    /\ Chunked
    /\ ~HasBlankLine(NormalizeNewlines(split_in.text))
    /\ split_in.overlap >= 1
    /\ Len(split_out.val) >= 3
    /\ Len(split_out.val[Len(split_out.val)]) < split_in.size
    /\ \E i \in 1..(Len(split_in.text) - 1) : split_in.text[i] # split_in.text[i + 1]

\* the set of the elements of a sequence
Range(seq) == {seq[i] : i \in 1..Len(seq)}

\* C15: get_all_cases() returns every existing case exactly once, a case
\* created later before a case created earlier: the list it returns is the
\* existing cases in the reverse of the order of their create_case calls.
C15_AllCasesNewestFirst ==
    cm_call.op = "get_all_cases" =>
        /\ Len(cm_ret.val) = Len(created)
        /\ \A i \in 1..Len(created) : cm_ret.val[i].id = created[Len(created) + 1 - i]

Cited(citations) == IF citations = None THEN <<>> ELSE citations.items

\* the dialog entries h are those of the add_dialog calls a, in call order
Matches(h, a) ==
    /\ Len(h) = Len(a)
    /\ \A i \in 1..Len(a) :
          /\ h[i].question = a[i][1]
          /\ h[i].answer = a[i][2]
          /\ h[i].citations = Cited(a[i][3])

C18_ThreeFormatsOnly ==
    /\ cm_call.op = "get_supported_extensions" =>
          /\ Len(cm_ret.val) = 3
          /\ Range(cm_ret.val) = {".pdf", ".docx", ".doc"}
    /\ cm_call.op = "extract_text_from_file" =>
          ((~cm_call.arg.exists \/ lower(cm_call.arg.ext) \notin {".pdf", ".docx", ".doc"})
              => cm_ret.val = None)

\* C19: a retrieve that has searched returns at most top_k results: one
\* result for every row id r of the search with 0 <= r < len(metadata), in
\* the order of the search, with the text, source and chunk_id of
\* metadata[r], and nothing for a row id of -1 or of len(metadata) or more;
\* a search with a positive top_k never ends in an error, whatever the
\* lengths of the index and the metadata.
C19_ResultsWithinBounds ==
    \A t \in Threads :
        Done(t, "retrieve") =>
            LET s == call[t].svc
                md == metadata[s]
                r == ret[t].val
            IN  /\ ret[t].why = "search" => call[t].top_k <= 0
                /\ Len(r) <= call[t].top_k
                /\ ret[t].why = "ok" =>
                      LET hits == search(index[s], _norm1(encode(call[t].query)), call[t].top_k)
                          good == SelectSeq(hits, LAMBDA h : 0 <= h[2] /\ h[2] < Len(md))
                      IN  /\ Len(r) = Len(good)
                          /\ \A i \in 1..Len(good) :
                                /\ r[i].chunk_index = good[i][2]
                                /\ r[i].text = md[good[i][2] + 1].text
                                /\ r[i].source = md[good[i][2] + 1].source
                                /\ r[i].chunk_id = md[good[i][2] + 1].chunk_id

\* a retrieve on an index of more rows than there are metadata records has
\* returned, having skipped a row id beyond the metadata and a padded -1
C19_Witness ==
    \E t \in Threads :
        /\ Done(t, "retrieve")
        /\ ret[t].why = "ok"
        /\ index[call[t].svc].ntotal > Len(metadata[call[t].svc])
        /\ call[t].top_k > index[call[t].svc].ntotal
        /\ Len(ret[t].val) = Len(metadata[call[t].svc])
        /\ Len(ret[t].val) >= 1

\* the extension of a law file, and the files in the order of their names
Ext(f) == IF f = "a.md" THEN ".md" ELSE ".txt"
ByName == <<"a.md", "b.txt", "c.txt">>

\* file f is loaded before file g: .txt before .md, and by name within one
\* extension
LoadedBefore(f, g) ==
    \/ Ext(f) = ".txt" /\ Ext(g) = ".md"
    \/ /\ Ext(f) = Ext(g)
       /\ \E i, j \in 1..Len(ByName) : i < j /\ ByName[i] = f /\ ByName[j] = g

\* the chunks of file f of corpus c; none when the file cannot be read
ChunksOf(c, f) ==
    IF c[f] \in {Absent, Unreadable} THEN <<>>
    ELSE _split_paragraph_chunks(c[f].text, CHUNK_SIZE, CHUNK_OVERLAP)

\* thread t has a build_index() of service s behind it that returned True
BuiltOk(t, s) == Done(t, "build") /\ ret[t].val = TRUE /\ call[t].svc = s

\* the records md are the chunks of corpus c in load order: every record is
\* a chunk of the file its source names, its chunk_id the 0-based place of
\* the chunk among the chunks of that file; every chunk of every file has a
\* record; .txt files come by name, then .md files by name, the chunks of a
\* file in the order the chunker gives them
DescribesCorpus(md, c) ==
    /\ \A i \in 1..Len(md) :
          /\ md[i].source \in Files
          /\ md[i].chunk_id \in 0..(Len(ChunksOf(c, md[i].source)) - 1)
          /\ md[i].text = ChunksOf(c, md[i].source)[md[i].chunk_id + 1]
    /\ \A f \in Files : \A k \in 1..Len(ChunksOf(c, f)) :
          \E i \in 1..Len(md) : md[i].source = f /\ md[i].chunk_id = k - 1
    /\ \A i, j \in 1..Len(md) :
          i < j =>
              IF md[i].source = md[j].source
              THEN md[i].chunk_id < md[j].chunk_id
              ELSE LoadedBefore(md[i].source, md[j].source)

\* C20: once build_index() has returned True on a service and no call is
\* under way, index row i of the service holds the embedding of the text of
\* its metadata record i, for every row i, and the records are the chunks of
\* the corpus a build that returned True has read, in load order, with the
\* file name as source and the 0-based place in the file as chunk_id (so no
\* two records share source and chunk_id).
C20_RowsAlignedInLoadOrder ==
    \A s \in Services :
        (Quiescent /\ \E t \in Threads : BuiltOk(t, s)) =>
            /\ FromOneBuild(index[s], metadata[s])
            /\ \E t \in Threads : BuiltOk(t, s) /\ DescribesCorpus(metadata[s], pre[t].corpus)
            /\ \A i, j \in 1..Len(metadata[s]) :
                  i # j => <<metadata[s][i].source, metadata[s][i].chunk_id>>
                           # <<metadata[s][j].source, metadata[s][j].chunk_id>>

\* C21: the process constructs the embedding model once: the model that
\* _get_model() hands out is the first one constructed, whatever build_index
\* and retrieve calls have run and however their steps have interleaved.
C21_ModelConstructedOnce == model # None => model.n = 1

\* the call of thread t was ended by the embedding model: its construction
\* failed or encode raised
ModelFailed(t) == ret[t].why \in {"load_fail", "encode_fail"}

\* C22: a retrieve that the embedding model has failed tells its caller so:
\* what it returns differs from what a retrieval that went through and found
\* nothing returns (the empty list); and it leaves the held index and the
\* held metadata as they were.
C22_ModelFailureSurfaced ==
    \A t \in Threads :
        (Done(t, "retrieve") /\ ModelFailed(t)) =>
            /\ ret[t].val # <<>>
            /\ index[call[t].svc] = pre[t].index
            /\ metadata[call[t].svc] = pre[t].metadata

\* the paragraphs of the text given to the chunker
InParagraphs == Paragraphs(NormalizeNewlines(split_in.text))

\* the last element of a non-empty sequence
Last(seq) == seq[Len(seq)]

\* the windows the hard split of the first paragraph gives, the remainder
\* as the last of them
FirstWindows == Windows(InParagraphs[1], split_in.size, split_in.overlap)

\* the text has two paragraphs, the first longer than chunk_size, and what
\* the hard split leaves of the first, shorter than a window, fits into one
\* chunk with the second
RemainderFits ==
    /\ Chunked
    /\ Len(InParagraphs) = 2
    /\ Len(InParagraphs[1]) > split_in.size
    /\ Len(Last(FirstWindows)) < split_in.size
    /\ Len(Last(FirstWindows)) + 1 + Len(InParagraphs[2]) <= split_in.size

\* C23: when the first of two paragraphs is longer than chunk_size and is
\* hard-split, the chunker emits the full windows and carries the remainder
\* forward as the new buffer: where the remainder and the second paragraph
\* fit into one chunk, the last chunk is the remainder, a newline and the
\* second paragraph, and the remainder is no chunk of its own.
C23_RemainderCarriedForward ==
    RemainderFits =>
        /\ Len(split_out.val) = Len(FirstWindows)
        /\ Last(split_out.val) = Last(FirstWindows) \o <<"\n">> \o InParagraphs[2]

\* C24: every chunk the chunker yields has at least one character and at
\* most chunk_size characters, for every text and all parameters with
\* 0 <= overlap < chunk_size.
C24_ChunksBounded ==
    Chunked =>
        \A i \in 1..Len(split_out.val) :
            /\ Len(split_out.val[i]) >= 1
            /\ Len(split_out.val[i]) <= split_in.size

\* the chunker has yielded three or more windows of a first paragraph, with
\* an overlap, and then the second paragraph as the buffer left at the end
C24_Witness ==
    /\ Chunked
    /\ Len(InParagraphs) = 2
    /\ split_in.overlap >= 1
    /\ Len(FirstWindows) >= 3
    /\ split_out.val = FirstWindows \o <<InParagraphs[2]>>
    /\ Len(split_out.val[1]) = split_in.size

\* paragraph p stands whole in chunk c: as a piece of c that starts c or
\* follows a newline, and ends c or is followed by a newline
Whole(p, c) ==
    \E a \in 1..Len(c) :
        /\ a + Len(p) - 1 <= Len(c)
        /\ SubSeq(c, a, a + Len(p) - 1) = p
        /\ a = 1 \/ c[a - 1] = "\n"
        /\ a + Len(p) - 1 = Len(c) \/ c[a + Len(p)] = "\n"

\* paragraphs i to k, joined by newlines
RECURSIVE Joined(_, _, _)
Joined(ps, i, k) == IF i = k THEN ps[i] ELSE ps[i] \o <<"\n">> \o Joined(ps, i + 1, k)

\* c is a piece of p
PieceOf(c, p) == \E a \in 1..Len(p) : a + Len(c) - 1 <= Len(p) /\ SubSeq(p, a, a + Len(c) - 1) = c

\* C25: every paragraph of at most chunk_size characters (trimmed) stands
\* whole in one chunk; and a chunk is either whole paragraphs that follow
\* each other, joined by newlines, or a piece of one paragraph that is
\* itself longer than chunk_size: nothing else is cut by the sliding
\* window.
C25_ParagraphsKeptWhole ==
    Chunked =>
        LET ps == InParagraphs
            out == split_out.val
        IN  /\ \A i \in 1..Len(ps) :
                  Len(ps[i]) <= split_in.size => \E j \in 1..Len(out) : Whole(ps[i], out[j])
            /\ \A j \in 1..Len(out) :
                  \/ \E i \in 1..Len(ps), k \in 1..Len(ps) : i <= k /\ out[j] = Joined(ps, i, k)
                  \/ \E i \in 1..Len(ps) : Len(ps[i]) > split_in.size /\ PieceOf(out[j], ps[i])

\* the chunker has cut a first paragraph longer than chunk_size into
\* windows and has yielded a second paragraph of more than one character
\* whole
C25_Witness ==
    /\ Chunked
    /\ Len(InParagraphs) = 2
    /\ Len(InParagraphs[1]) > split_in.size
    /\ Len(InParagraphs[2]) >= 2
    /\ Len(InParagraphs[2]) <= split_in.size
    /\ Last(split_out.val) = InParagraphs[2]
    /\ Len(split_out.val) >= 3

\* the text has nothing but whitespace
AllWhite(txt) == \A i \in 1..Len(txt) : IsSpace(txt[i])

\* the last n elements of a sequence
Suffix(seq, n) == SubSeq(seq, Len(seq) - n + 1, Len(seq))

\* chunk c holds character k of paragraph p: c is p whole, among other
\* paragraphs or not, or c is a piece of p that spans place k
Holds(c, p, k) ==
    \/ Whole(p, c)
    \/ \E a \in 1..k :
          /\ k <= a + Len(c) - 1
          /\ a + Len(c) - 1 <= Len(p)
          /\ SubSeq(p, a, a + Len(c) - 1) = c

\* C26: the chunker yields no chunk exactly when the text has nothing but
\* whitespace (the empty text included); for any other text, with or without
\* a blank line, the last chunk ends with the end of the last paragraph, and
\* every character of every paragraph is in some chunk.
C26_FlushedAndComplete ==
    Chunked =>
        LET ps == InParagraphs
            out == split_out.val
        IN  /\ out = <<>> <=> AllWhite(split_in.text)
            /\ out # <<>> =>
                  /\ ps # <<>>
                  /\ \E n \in 1..Len(Last(out)) :
                        /\ n = Len(Last(out)) \/ n = Len(Last(ps))
                        /\ n <= Len(Last(ps))
                        /\ Suffix(Last(out), n) = Suffix(Last(ps), n)
            /\ \A i \in 1..Len(ps) : \A k \in 1..Len(ps[i]) :
                  \E j \in 1..Len(out) : Holds(out[j], ps[i], k)

\* the chunker has cut a text with no blank line, of two lines, into three
\* or more chunks
C26_Witness ==
    /\ Chunked
    /\ ~HasBlankLine(NormalizeNewlines(split_in.text))
    /\ \E i \in 1..Len(Strip(split_in.text)) : Strip(split_in.text)[i] = "\n"
    /\ Len(split_out.val) >= 3
    /\ Last(Last(split_out.val)) = Last(Strip(split_in.text))

\* the generator run step by step yields what _split_paragraph_chunks gives
GenAgrees ==
    gen.pc = "end" =>
        gen.out = _split_paragraph_chunks(split_in.text, split_in.size, split_in.overlap)

\* C29: the chunker terminates whenever 0 <= overlap < chunk_size: every
\* turn of a while loop leaves a strictly shorter buffer, and the generator
\* is exhausted in the end.
C29_ChunkerTerminates ==
    /\ [][(gen.pc \in Whiles /\ gen'.pc = gen.pc) => Len(gen'.cur) < Len(gen.cur)]_vars
    /\ <>(gen.pc = "end")

\* the generator is exhausted after a turn of the while loop inside the
\* for loop and a turn of the while loop after it
C29_Witness ==
    /\ gen.pc = "end"
    /\ Len(gen.ps) = 2
    /\ Len(gen.ps[1]) > split_in.size
    /\ Len(gen.ps[2]) > split_in.size
    /\ Len(gen.out) = 4

\* file f of corpus c is there and cannot be read
CannotBeRead(c, f) == c[f] = Unreadable

\* thread t has a build_index() behind it over a corpus with a file that
\* cannot be read
BuiltOverBadFile(t) == Done(t, "build") /\ \E f \in Files : CannotBeRead(pre[t].corpus, f)

\* the build has gone on with the other files: when one of them gives a chunk
\* the build has returned True and the metadata describes them (a file not
\* written in UTF-8 read under the fallback encoding), with no record of a
\* file that cannot be read
SkippedAndContinued ==
    \A t \in Threads :
        BuiltOverBadFile(t) =>
            LET c == pre[t].corpus
            IN  (\E g \in Files : ChunksOf(c, g) # <<>>) =>
                    /\ ret[t].val = TRUE
                    /\ DescribesCorpus(metadata[call[t].svc], c)
                    /\ \A i \in 1..Len(metadata[call[t].svc]) :
                          ~CannotBeRead(c, metadata[call[t].svc][i].source)

\* C27: a build_index() over a corpus with a file that cannot be read skips
\* that file and goes on with the other files, and the log has a warning
\* for the file that was skipped.
C27_BadFilesSkippedWithWarning ==
    /\ SkippedAndContinued
    /\ \A t \in Threads :
          BuiltOverBadFile(t) =>
              \A f \in Files :
                  CannotBeRead(pre[t].corpus, f) => f \in Range(_load_corpus_log(pre[t].corpus))

\* law file f is taken out of the corpus directory in this step
Removed(f) == exists(corpus[f]) /\ ~exists(corpus'[f])

\* C28: a law file leaves the corpus directory only by the confirm button of
\* a session whose show_delete_confirm names that file; show_delete_confirm
\* comes to name a file only by the delete button of that file; the cancel
\* button clears show_delete_confirm and removes no file; and after a
\* deletion by the confirm button the file is not in that session's
\* selected_laws and its show_delete_confirm is None.
C28_DeleteNeedsConfirmation ==
    [][/\ \A f \in Files :
              Removed(f) =>
                  \E u \in Sessions :
                      /\ ConfirmShown(u)
                      /\ show_delete_confirm[u] = Str(f)
                      /\ ConfirmDelete(u)
                      /\ ~is_selected(u, f)'
                      /\ show_delete_confirm'[u] = None
       /\ \A u \in Sessions :
              (show_delete_confirm'[u] # show_delete_confirm[u] /\ show_delete_confirm'[u] # None) =>
                  \E f \in law_files : RequestDelete(u, f) /\ show_delete_confirm'[u] = Str(f)
       /\ \A u \in Sessions :
              CancelDelete(u) =>
                  /\ show_delete_confirm'[u] = None
                  /\ \A f \in Files : ~Removed(f)]_vars

\* a session has deleted a selected law file through the confirmation while
\* the other session still has a deletion of the same file open
C28_Witness ==
    \E u \in Sessions, f \in Files :
        /\ sidebar[u] = [kind |-> "success", file |-> f]
        /\ ~exists(corpus[f])
        /\ show_delete_confirm[u] = None
        /\ selected_laws[u] # <<>>
        /\ ~is_selected(u, f)
        /\ \E w \in Sessions \ {u} : show_delete_confirm[w] = Str(f) /\ is_selected(w, f)

\* the names of the files in the files directory of case c
FilesOf(c) == {f \in TargetNames : files_dir[c][f] # Absent}

\* the filename fields of the file_list of case c
Listed(c) == LET fl == get_case_meta(cases_dir, c).file_list IN [i \in 1..Len(fl) |-> fl[i].filename]

\* an upload_file_to_case that has returned False has left the files
\* directories, and with cases_dir every file_list, total_chars and case
\* text, as they were
FailedUploadChangesNothing ==
    (cm_call.op = "upload_file_to_case" /\ cm_ret.val = FALSE) =>
        /\ files_dir = cm_pre.files_dir
        /\ cases_dir = cm_pre.cases_dir

\* C30: an upload_file_to_case that returns False leaves the case as it was
\* (no new file in the files directory; file_list, total_chars and the case
\* text unchanged), and so, after any uploads and delete_file_from_case
\* calls, the files of the files directory of a case are the names of its
\* file_list, each listed once.
C30_FailedUploadLeavesCase ==
    /\ FailedUploadChangesNothing
    /\ \A c \in Ids :
          cases_dir[c] # Absent =>
              /\ FilesOf(c) = Range(Listed(c))
              /\ \A i, j \in 1..Len(Listed(c)) : Listed(c)[i] = Listed(c)[j] => i = j

====
